---------------------------- MODULE Spec2Model ----------------------------
(***************************************************************************)
(* State-machine model of the LangGraph workflow of app/langgraph_agent.py *)
(* (class LangGraphSearchAgent): the question classifier, the stage        *)
(* router classify_mcp, the stage execution node, the history check and    *)
(* the two answer nodes, wired as _build_graph wires them.                 *)
(*                                                                         *)
(* Text is modelled as a sequence of one-character strings; an LLM reply   *)
(* to the classifier is a sequence of tokens.  Every external call (LLM,   *)
(* tool, vector search) returns; what it returns is chosen with \E.        *)
(***************************************************************************)
EXTENDS Integers, Sequences, FiniteSets, TLC

NULL == "null"

\* ------------------------------------------------------------------------
\* Program constants (class attributes of LangGraphSearchAgent)
\* ------------------------------------------------------------------------
MAX_STAGE_AGENT_STEPS == 4
MAX_WORKFLOW_ITERATIONS == 8
MAX_STAGE_AGENT_TOOLS == 3
FALLBACK_TOOL_LIMIT == 1
\* classify: expert_sim_score >= 80
EXPERT_SIM_THRESHOLD == 80
\* _history_length_check_node: len(content) > 10000
HISTORY_SUMMARY_LIMIT == 10000

\* ------------------------------------------------------------------------
\* Bounds of the model
\* ------------------------------------------------------------------------
\* longest question, in characters, the classifier is checked on
MaxQLen == 2
\* longest LLM reply, in tokens, the classifier is checked on
MaxReplyLen == 2

\* ------------------------------------------------------------------------
\* Text helpers
\* ------------------------------------------------------------------------
Max2(a, b) == IF a >= b THEN a ELSE b

SetMax(S) == CHOOSE m \in S : \A x \in S : x <= m

SeqsUpTo(S, n) == UNION { [1..k -> S] : k \in 0..n }

\* The characters questions are written in: the letters of the keywords
\* below in both cases, and one letter ("x") no keyword uses.
Alphabet == {"F", "D", "f", "d", "y", "x"}

\* str.lower() on one character
LowerChar(c) == CASE c = "F" -> "f"
                  [] c = "D" -> "d"
                  [] OTHER -> c

\* str.lower()
Lower(s) == [i \in 1..Len(s) |-> LowerChar(s[i])]

\* `needle in hay` for strings
Contains(hay, needle) ==
    \E i \in 0..(Len(hay) - Len(needle)) :
        \A j \in 1..Len(needle) : hay[i + j] = needle[j]

\* PROFESSIONAL_KEYWORDS, scaled down to two keywords: one written in
\* upper case (as "FDA", "KEGG" are) and one of a single character (as
\* the keyword for "drug" is).
PROFESSIONAL_KEYWORDS == << <<"F", "D">>, <<"y">> >>

\* length of the longest common subsequence (rapidfuzz's Indel distance
\* is len(a) + len(b) - 2 * LCS)
RECURSIVE LCS(_, _)
LCS(a, b) ==
    IF a = << >> \/ b = << >> THEN 0
    ELSE IF Head(a) = Head(b) THEN 1 + LCS(Tail(a), Tail(b))
    ELSE Max2(LCS(Tail(a), b), LCS(a, Tail(b)))

\* fuzz.ratio, rounded down to an integer (the comparison with the integer
\* threshold is unchanged by the rounding)
Ratio(a, b) ==
    IF Len(a) + Len(b) = 0 THEN 100
    ELSE (200 * LCS(a, b)) \div (Len(a) + Len(b))

\* The windows of `hay` that fuzz.partial_ratio aligns `needle` with:
\* the prefixes shorter than the needle, every window of the needle's
\* length, and the suffixes shorter than the needle.
Windows(needle, hay) ==
    LET n == Len(needle)
        h == Len(hay)
    IN  { SubSeq(hay, 1, i) : i \in 1..(n - 1) }
        \cup { SubSeq(hay, i, i + n - 1) : i \in 1..(h - n + 1) }
        \cup { SubSeq(hay, i, h) : i \in (h - n + 2)..h }

PartialRatioImpl(needle, hay) ==
    SetMax({ Ratio(needle, w) : w \in Windows(needle, hay) })

\* fuzz.partial_ratio(s1, s2): the shorter string is the needle; with equal
\* lengths both alignments are tried.
PartialRatio(s1, s2) ==
    IF Len(s1) = 0 \/ Len(s2) = 0
    THEN (IF Len(s1) = 0 /\ Len(s2) = 0 THEN 100 ELSE 0)
    ELSE IF Len(s1) < Len(s2) THEN PartialRatioImpl(s1, s2)
    ELSE IF Len(s2) < Len(s1) THEN PartialRatioImpl(s2, s1)
    ELSE Max2(PartialRatioImpl(s1, s2), PartialRatioImpl(s2, s1))

\* max(fuzz.partial_ratio(k, question) for k in PROFESSIONAL_KEYWORDS)
ExpertSimScore(question) ==
    SetMax({ PartialRatio(PROFESSIONAL_KEYWORDS[i], question) :
                i \in 1..Len(PROFESSIONAL_KEYWORDS) })

\* _detect_professional_keywords: keyword.lower() in question.lower()
DetectProfessionalKeywords(question) ==
    \E i \in 1..Len(PROFESSIONAL_KEYWORDS) :
        Contains(Lower(question), Lower(PROFESSIONAL_KEYWORDS[i]))

\* ------------------------------------------------------------------------
\* The classifier's reply.  Tokens: "PRO" is the verdict word for
\* professional, "GEN" the one for general, "ANS" the word for "answer"
\* the prompt ends with, ":" a colon, "NL" a newline, "SP" a blank, "w" any
\* other word.
\* ------------------------------------------------------------------------
ReplyTokens == {"PRO", "GEN", "ANS", ":", "NL", "SP", "w"}

IsSpace(t) == t \in {"NL", "SP"}

RECURSIVE LStrip(_)
LStrip(s) == IF s # << >> /\ IsSpace(Head(s)) THEN LStrip(Tail(s)) ELSE s

RECURSIVE RStrip(_)
RStrip(s) ==
    IF s # << >> /\ IsSpace(s[Len(s)]) THEN RStrip(SubSeq(s, 1, Len(s) - 1))
    ELSE s

\* str.strip()
Strip(s) == RStrip(LStrip(s))

\* str.replace(t, "")
Remove(s, t) == SelectSeq(s, LAMBDA u : u # t)

\* result.strip().replace("\n", "").replace(":", "").replace("answer", "").strip()
CleanVerdict(raw) == Strip(Remove(Remove(Remove(Strip(raw), "NL"), ":"), "ANS"))

\* result.startswith(<professional>)
StartsWithPro(result) == result # << >> /\ Head(result) = "PRO"

\* ClassifyIsMcp without the keyword check (C9 depends on that check)
ClassifyIsMcpNoKeywords(result, question) ==
    \/ StartsWithPro(result)
    \/ ExpertSimScore(question) >= EXPERT_SIM_THRESHOLD

\* _classify_node, the decision: is_mcp
ClassifyIsMcp(result, question) ==
    \/ StartsWithPro(result)
    \/ ExpertSimScore(question) >= EXPERT_SIM_THRESHOLD
    \/ DetectProfessionalKeywords(question)

\* ------------------------------------------------------------------------
\* Stage Definition Table and agent codes
\* ------------------------------------------------------------------------
\* WORKFLOW_DEFINITION: the stage keys, in order
WORKFLOW_DEFINITION ==
    << "target_agent", "pathway_agent", "chem_agent", "structure_agent",
       "clinical_agent" >>

StageKeys == { WORKFLOW_DEFINITION[i] : i \in 1..Len(WORKFLOW_DEFINITION) }

\* WORKFLOW_DEFINITION[...]["title"]
StageTitle(key) ==
    CASE key = "target_agent" -> "TargetAgent"
      [] key = "pathway_agent" -> "PathwayAgent"
      [] key = "chem_agent" -> "ChemAgent"
      [] key = "structure_agent" -> "StructureAgent"
      [] key = "clinical_agent" -> "ClinicalAgent"

StageTitles == { StageTitle(k) : k \in StageKeys }

\* self._agent_priority = tuple(MCP_AGENT_TO_STAGE.keys())
AGENT_PRIORITY == << "TV", "CD", "SA", "PI" >>

AgentCodes == { AGENT_PRIORITY[i] : i \in 1..Len(AGENT_PRIORITY) }

\* MCP_AGENT_TO_STAGE
MCP_AGENT_TO_STAGE(code) ==
    CASE code = "TV" -> "target_agent"
      [] code = "CD" -> "chem_agent"
      [] code = "SA" -> "structure_agent"
      [] code = "PI" -> "pathway_agent"

\* the stages an agent code maps to
RoutableStages == { MCP_AGENT_TO_STAGE(c) : c \in AgentCodes }

\* MCP_AGENT_CHOICES = (*MCP_AGENT_TO_STAGE.keys(), "AG")
MCP_AGENT_CHOICES == AgentCodes \cup {"AG"}

\* _stage_visit_counts is a dict read with .get(key, 0); a key is stored
\* only with a count >= 1, so the dict is non-empty exactly when some
\* count is positive.
NoVisits == [k \in StageKeys |-> 0]

VisitsNonEmpty(stage_visits) == \E k \in StageKeys : stage_visits[k] > 0

\* NextUnvisitedAgent walking the priority list from its end (C4 depends on
\* the order)
LastUnvisitedAgent(stage_visits) ==
    LET open == { i \in 1..Len(AGENT_PRIORITY) :
                    stage_visits[MCP_AGENT_TO_STAGE(AGENT_PRIORITY[i])] = 0 }
    IN  IF open = {} THEN NULL
        ELSE AGENT_PRIORITY[CHOOSE i \in open : \A j \in open : i >= j]

\* _next_unvisited_agent
NextUnvisitedAgent(stage_visits) ==
    LET open == { i \in 1..Len(AGENT_PRIORITY) :
                    stage_visits[MCP_AGENT_TO_STAGE(AGENT_PRIORITY[i])] = 0 }
    IN  IF open = {} THEN NULL
        ELSE AGENT_PRIORITY[CHOOSE i \in open : \A j \in open : i <= j]

\* ------------------------------------------------------------------------
\* classify_mcp: the LLM's routing reply and the decision taken on it
\* ------------------------------------------------------------------------
\* The values the reply's "next" field is given as text, and
\* .strip().upper() of each.
NextTexts == {"TV", "CD", "SA", "PI", "AG", "pi", " sa ", "XX", ""}

StripUpper(text) ==
    CASE text = "pi" -> "PI"
      [] text = " sa " -> "SA"
      [] OTHER -> text

\* What json.loads(cleaned_response) yields:
\*   not_json    json.JSONDecodeError
\*   non_object  a JSON value that is no object (list, number, string, null)
\*   object      an object; next is "absent", "non_string" (null, a number)
\*               or one of NextTexts; rationale is "text", "empty" or
\*               "non_string" (a truthy value that is no string)
RoutingReplies ==
    { [kind |-> "not_json", next |-> "absent", rationale |-> "empty"],
      [kind |-> "non_object", next |-> "absent", rationale |-> "empty"] }
    \cup [kind : {"object"},
          next : {"absent", "non_string"} \cup NextTexts,
          rationale : {"text", "empty", "non_string"}]

\* RouteToRag leaving the loop as soon as any stage has run (C5 depends on
\* the all-visited test)
RouteToRagAfterFirstStage(stage_visits, step_count) ==
    \/ step_count >= MAX_WORKFLOW_ITERATIONS
    \/ VisitsNonEmpty(stage_visits)

\* the early exit of _classify_mcp_node
RouteToRag(stage_visits, step_count) ==
    \/ step_count >= MAX_WORKFLOW_ITERATIONS
    \/ (NextUnvisitedAgent(stage_visits) = NULL /\ VisitsNonEmpty(stage_visits))

\* payload.get(...) on a non-object and .strip() on a non-string raise
\* AttributeError, which the except json.JSONDecodeError clause lets through
ParseRaises(reply) ==
    \/ reply.kind = "non_object"
    \/ (reply.kind = "object" /\ reply.next = "non_string")

\* next_choice after the try block
ParsedChoice(reply, pending_agent) ==
    IF reply.kind = "not_json"
    THEN (IF pending_agent # NULL THEN pending_agent ELSE "TV")
    ELSE IF reply.next = "absent" THEN ""
    ELSE StripUpper(reply.next)

\* next_choice after the validation block
ValidatedChoice(reply, pending_agent) ==
    LET c == ParsedChoice(reply, pending_agent)
    IN  IF c \notin MCP_AGENT_CHOICES
        THEN (IF pending_agent # NULL THEN pending_agent ELSE "TV")
        ELSE c

\* OverrideApplies with the duplicate-visit override missing (C2 depends on
\* the override)
OverrideNever(choice, stage_visits, pending_agent) == FALSE

\* already_completed and pending_agent and pending_agent != next_choice
OverrideApplies(choice, stage_visits, pending_agent) ==
    /\ choice \in AgentCodes
    /\ stage_visits[MCP_AGENT_TO_STAGE(choice)] > 0
    /\ pending_agent # NULL
    /\ pending_agent # choice

\* rationale as it stands before the override block
RationaleIsNonString(reply, pending_agent) ==
    /\ reply.kind = "object"
    /\ reply.rationale = "non_string"
    /\ ParsedChoice(reply, pending_agent) \in MCP_AGENT_CHOICES

\* (rationale + " ") on a truthy non-string raises TypeError
OverrideRaises(reply, stage_visits, pending_agent) ==
    /\ OverrideApplies(ValidatedChoice(reply, pending_agent), stage_visits,
                       pending_agent)
    /\ RationaleIsNonString(reply, pending_agent)

\* state["next"] on the LLM path of _classify_mcp_node
ClassifyMcpChoice(reply, stage_visits) ==
    LET pending_agent == NextUnvisitedAgent(stage_visits)
        c == ValidatedChoice(reply, pending_agent)
    IN  IF OverrideApplies(c, stage_visits, pending_agent)
        THEN pending_agent ELSE c

ClassifyMcpRaises(reply, stage_visits) ==
    \/ ParseRaises(reply)
    \/ OverrideRaises(reply, stage_visits, NextUnvisitedAgent(stage_visits))

\* ------------------------------------------------------------------------
\* Stage execution: Stage Agent, Fallback Executor, stage node
\* ------------------------------------------------------------------------
\* A resolved tool (ResolvedMCPTool): the tool's name, its label
\* "server:name", and the fuzzy score _rank_resolved_tools gives it for the
\* run's query.
Tool(name, label, score) == [name |-> name, label |-> label, score |-> score]

EmptyMap == [x \in {} |-> << >>]

\* what one tool invocation does: returns a meaningful result, returns a
\* result _is_meaningful_result rejects, or raises
ToolOutcomes == {"data", "empty", "raise"}

\* AddResult replacing the earlier outputs of a label (C17 depends on the
\* append)
AddResultOverwrite(results, label, value) == (label :> << value >>) @@ results

\* stage_results[tool_label]: a new label gets a one-element list, a known
\* label is appended to
AddResult(results, label, value) ==
    IF label \in DOMAIN results
    THEN [results EXCEPT ![label] = Append(@, value)]
    ELSE (label :> << value >>) @@ results

ToolNamed(tools, name) ==
    LET hits == { i \in 1..Len(tools) : tools[i].name = name }
    IN  tools[CHOOSE i \in hits : \A j \in hits : j <= i]

HasTool(tools, name) == \E i \in 1..Len(tools) : tools[i].name = name

\* The Stage Agent's local state before its first step
AgentStart ==
    [scratchpad |-> << >>, results |-> EmptyMap, used_tools |-> << >>,
     summary |-> FALSE, invoked |-> 0, decisions |-> 0,
     stop |-> FALSE, raised |-> FALSE]

Scratch(type, tool, output) == [type |-> type, tool |-> tool, output |-> output]

\* the request for an unknown tool entered among the used tools (C29
\* depends on its not being counted)
UnknownToolCounted(acc) ==
    [acc EXCEPT !.scratchpad = Append(@, Scratch("error", "", "not_found")),
                !.used_tools = Append(@, "unknown")]

\* tool_name not in tool_map: an error entry in the scratchpad, continue
UnknownToolRequested(acc) ==
    [acc EXCEPT !.scratchpad = Append(@, Scratch("error", "", "not_found"))]

\* the error of a raising tool recorded as if it were data (C30 depends on
\* the error result)
ToolResultHidingError(outcome) == "data"

\* what the invocation leaves in result: {"error": str(exc)} when the tool
\* raises, its serialized output otherwise
ToolResult(outcome) == IF outcome = "raise" THEN "error" ELSE "data"

\* One iteration of the loop of _run_stage_agent on the model's decision d:
\*   [action |-> "call_tool", tool_name, outcome]   a tool request and what
\*                                                   the tool does if invoked
\*   [action |-> "finish", summary]                 finish, with or without
\*                                                   summary text
\*   [action |-> "malformed"]                       JSON that is no object:
\*                                                   decision.get raises
AgentStep(tools, d, acc) ==
    LET counted == [acc EXCEPT !.decisions = @ + 1]
    IN
    IF d.action = "malformed"
    THEN [counted EXCEPT !.stop = TRUE, !.raised = TRUE]
    ELSE IF d.action = "call_tool"
    THEN IF Len(acc.used_tools) >= MAX_STAGE_AGENT_TOOLS
         THEN [counted EXCEPT
                 !.scratchpad = Append(@, Scratch("error", "", "budget")),
                 !.summary = TRUE,
                 !.stop = TRUE]
         ELSE IF ~HasTool(tools, d.tool_name)
         THEN UnknownToolRequested(counted)
         ELSE LET label == ToolNamed(tools, d.tool_name).label
              IN  IF d.outcome = "empty"
                  THEN [counted EXCEPT
                          !.invoked = @ + 1,
                          !.scratchpad = Append(@, Scratch("tool", label, "empty"))]
                  ELSE LET value == ToolResult(d.outcome)
                       IN  [counted EXCEPT
                              !.invoked = @ + 1,
                              !.scratchpad = Append(@, Scratch("tool", label, value)),
                              !.used_tools = Append(@, label),
                              !.results = AddResult(@, label, value)]
    ELSE [counted EXCEPT !.summary = d.summary, !.stop = TRUE]

\* for step in range(MAX_STAGE_AGENT_STEPS)
RECURSIVE AgentLoop(_, _, _, _)
AgentLoop(tools, script, step, acc) ==
    IF step > MAX_STAGE_AGENT_STEPS \/ acc.stop THEN acc
    ELSE AgentLoop(tools, script, step + 1, AgentStep(tools, script[step], acc))

\* StatusOf ignoring the results (C11 depends on the test)
StatusAlwaysCompleted(results) == "completed"

\* status = "completed" if stage_results else "skipped"
StatusOf(results) == IF DOMAIN results # {} THEN "completed" ELSE "skipped"

\* notes: one line per scratchpad entry, then the summary; a fixed text
\* when there is neither
AgentNotes(acc) ==
    LET lines == acc.scratchpad \o
                 (IF acc.summary THEN << Scratch("summary", "", "") >> ELSE << >>)
    IN  IF lines = << >> THEN << Scratch("text", "", "Tool results are empty.") >>
        ELSE lines

\* _run_stage_agent: the outcome record (and, for the properties, the number of
\* tool invocations and of model decisions it made and whether it raised)
RunStageAgent(tools, script) ==
    LET acc == AgentLoop(tools, script, 1, AgentStart)
    IN  [results |-> acc.results,
         used_tools |-> acc.used_tools,
         status |-> StatusOf(acc.results),
         notes |-> AgentNotes(acc),
         invoked |-> acc.invoked,
         decisions |-> acc.decisions,
         raised |-> acc.raised]

\* list.sort(key=score, reverse=True) is stable: insert each tool after the
\* tools that score at least as much
RECURSIVE SortByScore(_)
SortByScore(tools) ==
    IF tools = << >> THEN << >>
    ELSE LET rest == SortByScore(SubSeq(tools, 1, Len(tools) - 1))
             t == tools[Len(tools)]
             ahead == SelectSeq(rest, LAMBDA u : u.score >= t.score)
             behind == SelectSeq(rest, LAMBDA u : u.score < t.score)
         IN  ahead \o << t >> \o behind

\* _rank_resolved_tools: an empty query ranks nothing; otherwise the tools
\* scoring at least 30, best first
RankResolvedTools(query, tools) ==
    IF query = << >> THEN tools
    ELSE SortByScore(SelectSeq(tools, LAMBDA t : t.score >= 30))

Take(s, n) == SubSeq(s, 1, IF Len(s) < n THEN Len(s) ELSE n)

\* a raising tool leaving no note (C28 depends on the note)
FallbackRaiseUnnoted(acc, label) == [acc EXCEPT !.invoked = @ + 1]

\* except Exception: a note for the tool, continue
FallbackToolRaised(acc, label) ==
    [acc EXCEPT !.invoked = @ + 1,
                !.notes = Append(@, Scratch("fallback", label, "error"))]

RECURSIVE FallbackLoop(_, _, _)
FallbackLoop(todo, outcome, acc) ==
    IF todo = << >> THEN acc
    ELSE LET t == Head(todo)
             o == outcome[t.name]
             next == CASE o = "raise" -> FallbackToolRaised(acc, t.label)
                       [] o = "empty" ->
                            [acc EXCEPT !.invoked = @ + 1,
                                        !.notes = Append(@, Scratch("fallback", t.label, "empty"))]
                       [] OTHER ->
                            [acc EXCEPT !.invoked = @ + 1,
                                        !.notes = Append(@, Scratch("fallback", t.label, "data")),
                                        !.used_tools = Append(@, t.label),
                                        !.results = AddResult(@, t.label, "data")]
         IN  FallbackLoop(Tail(todo), outcome, next)

\* _run_fallback_tools; outcome[name] is what tool `name` does when invoked
RunFallbackTools(query, tools, outcome) ==
    LET ranked == RankResolvedTools(query, tools)
        limit == IF FALLBACK_TOOL_LIMIT # 0 THEN FALLBACK_TOOL_LIMIT ELSE Len(ranked)
        acc == FallbackLoop(Take(ranked, limit), outcome,
                            [results |-> EmptyMap, used_tools |-> << >>,
                             notes |-> << >>, invoked |-> 0])
    IN  [results |-> acc.results,
         used_tools |-> acc.used_tools,
         status |-> StatusOf(acc.results),
         notes |-> IF acc.notes = << >>
                   THEN << Scratch("text", "", "Fallback executed but produced no tool outputs.") >>
                   ELSE acc.notes,
         invoked |-> acc.invoked]

\* dict.update
MapUpdate(base, more) ==
    [l \in (DOMAIN base) \cup (DOMAIN more) |->
        IF l \in DOMAIN more THEN more[l] ELSE base[l]]

TraceEntry(title, tools, status, notes) ==
    [stage |-> title, tools |-> tools, status |-> status, notes |-> notes]

\* FallbackNeeded without its condition (C14 depends on the condition)
FallbackAlways(agent) == TRUE

\* ran_llm_tools = bool(agent_outcome["used_tools"]);
\* if not ran_llm_tools and not stage_results: run the fallback
FallbackNeeded(agent) == agent.used_tools = << >> /\ DOMAIN agent.results = {}

\* SkippedEntry leaving the entry's status as created (C16 depends on the
\* assignment of "skipped")
PendingEntry(title, note) ==
    TraceEntry(title, << >>, "pending", << Scratch("text", "", note) >>)

\* the trace entry of a stage that is skipped before its agent runs
SkippedEntry(title, note) ==
    TraceEntry(title, << >>, "skipped", << Scratch("text", "", note) >>)

\* the labels the Fallback Executor invoked, in order
FallbackInvoked(notes) ==
    LET hits == SelectSeq(notes, LAMBDA n : n.type = "fallback")
    IN  [i \in 1..Len(hits) |-> hits[i].tool]

\* The stage node built by _make_workflow_stage_node, for a stage whose
\* deployment is env = [servers, tools]: what it stores under
\* mcp_tool_results[title], the entry it appends to workflow_trace, and
\* whether it raised.
StageNode(title, env, query, script, outcome) ==
    IF ~env.servers
    THEN [results |-> EmptyMap, raised |-> FALSE, ran_fallback |-> FALSE, invoked |-> 0,
          agent_invoked |-> 0, fallback_invoked |-> << >>, decisions |-> 0,
          entry |-> SkippedEntry(title, "no registered MCP server tools")]
    ELSE IF env.tools = << >>
    THEN [results |-> EmptyMap, raised |-> FALSE, ran_fallback |-> FALSE, invoked |-> 0,
          agent_invoked |-> 0, fallback_invoked |-> << >>, decisions |-> 0,
          entry |-> SkippedEntry(title, "No LangChain tools were found")]
    ELSE LET agent == RunStageAgent(env.tools, script)
         IN  IF agent.raised
             THEN [results |-> EmptyMap, raised |-> TRUE, ran_fallback |-> FALSE,
                   invoked |-> agent.invoked,
                   agent_invoked |-> agent.invoked, fallback_invoked |-> << >>,
                   decisions |-> agent.decisions,
                   entry |-> TraceEntry(title, << >>, "pending", << >>)]
             ELSE IF FallbackNeeded(agent)
             THEN LET fb == RunFallbackTools(query, env.tools, outcome)
                  IN  [results |-> MapUpdate(agent.results, fb.results),
                       raised |-> FALSE, ran_fallback |-> TRUE,
                       invoked |-> agent.invoked + fb.invoked,
                       agent_invoked |-> agent.invoked,
                       fallback_invoked |-> FallbackInvoked(fb.notes),
                       decisions |-> agent.decisions,
                       entry |-> TraceEntry(title, agent.used_tools \o fb.used_tools,
                                            fb.status,
                                            agent.notes \o
                                              << Scratch("text", "", "Fallback run:") >> \o
                                              fb.notes)]
             ELSE [results |-> agent.results, raised |-> FALSE, ran_fallback |-> FALSE,
                   invoked |-> agent.invoked,
                   agent_invoked |-> agent.invoked, fallback_invoked |-> << >>,
                   decisions |-> agent.decisions,
                   entry |-> TraceEntry(title, agent.used_tools, agent.status,
                                        agent.notes)]

\* ------------------------------------------------------------------------
\* History text
\* ------------------------------------------------------------------------
\* _make_history_entry; an entry's content is kept as its length
HistoryEntry(role, size) == [role |-> role, size |-> size]

RECURSIVE SumSizes(_)
SumSizes(entries) ==
    IF entries = << >> THEN 0 ELSE Head(entries).size + SumSizes(Tail(entries))

\* len(self._history_text(state)): the contents joined by "\n"
HistoryTextLen(entries) ==
    IF entries = << >> THEN 0 ELSE SumSizes(entries) + (Len(entries) - 1)

\* len(content) > 10000
NeedsSummary(entries) == HistoryTextLen(entries) > HISTORY_SUMMARY_LIMIT

\* number of characters of a classifier token sequence
TextLen(tokens) ==
    SumSizes([i \in 1..Len(tokens) |->
                [size |-> IF tokens[i] \in {"PRO", "GEN", "ANS"} THEN 2 ELSE 1]])

\* number of decimal digits of a natural number
Digits(n) == IF n < 10 THEN 1 ELSE IF n < 100 THEN 2 ELSE 3

\* length, in characters, of the texts the nodes append to the history; a
\* rationale sentence counts RationaleLen characters whoever worded it
RationaleLen == 40
SummaryLen == 60
PriorLen == 9600

ClassifyNote(is_mcp, result, score) ==
    HistoryEntry("system",
        (IF is_mcp THEN 53 ELSE 56) + TextLen(result) + Digits(score) + 2)

RagNote(budget_reached) ==
    HistoryEntry("system", IF budget_reached THEN 80 ELSE 85)

SelectedNote(overridden, has_rationale) ==
    HistoryEntry("system",
        28 + (IF has_rationale THEN RationaleLen ELSE 0)
           + (IF overridden THEN (IF has_rationale THEN 52 ELSE 51) ELSE 0))

ExecutedNote(stage_key) ==
    HistoryEntry("system",
        35 + (CASE stage_key = "target_agent" -> 12
                [] stage_key = "pathway_agent" -> 13
                [] stage_key = "chem_agent" -> 10
                [] stage_key = "structure_agent" -> 15
                [] stage_key = "clinical_agent" -> 14))

SummaryNote(size) == HistoryEntry("system", 17 + size)

CounterNote(step_count) == HistoryEntry("system", 29 + Digits(step_count))

\* ------------------------------------------------------------------------
\* Inputs of the workflow runs
\* ------------------------------------------------------------------------
Questions == SeqsUpTo(Alphabet, MaxQLen)

ClassifyReplies == SeqsUpTo(ReplyTokens, MaxReplyLen)

\* the question, classifier replies and earlier conversations the whole
\* workflow is run on (a question without keyword: the classifier's reply
\* alone decides; SpecClassify covers the keyword and fuzzy matches)
GraphQuestions == { << "x" >> }

GraphClassifyReplies == { << "PRO" >>, << "GEN" >> }

PriorConversations == { << >>, << HistoryEntry("user", PriorLen) >> }

\* routing replies the whole workflow is run on: every kind, with a
\* rationale text where the kind has one
GraphRoutingReplies ==
    { r \in RoutingReplies :
        r.kind = "object" /\ r.next \notin {"pi", ""} => r.rationale # "empty" }

\* decisions of the stage model
Call(name, outcome) ==
    [action |-> "call_tool", tool_name |-> name, outcome |-> outcome, summary |-> FALSE]

Finish(summary) ==
    [action |-> "finish", tool_name |-> "", outcome |-> "data", summary |-> summary]

Malformed ==
    [action |-> "malformed", tool_name |-> "", outcome |-> "data", summary |-> FALSE]

\* How the provider groups of each stage are deployed: no group of the
\* stage is configured (module_tools is empty), the groups resolve to no
\* tool, or they resolve to tools.
NoServers == [servers |-> FALSE, tools |-> << >>]

NoTools == [servers |-> TRUE, tools |-> << >>]

WithTools(tools) == [servers |-> TRUE, tools |-> tools]

ToolA == Tool("a", "S:a", 90)

ToolB == Tool("b", "S:b", 20)

Deployments ==
    { [k \in StageKeys |->
         CASE k = "target_agent" -> WithTools(<< ToolB, ToolA >>)
           [] k = "pathway_agent" -> WithTools(<< ToolB >>)
           [] k = "chem_agent" -> NoTools
           [] OTHER -> NoServers] }

ToolNames == {"a", "b"}

\* the model decisions and tool behaviours the whole workflow is run on
GraphScripts ==
    { << Finish(TRUE), Finish(TRUE), Finish(TRUE), Finish(TRUE) >>,
      << Call("b", "data"), Finish(FALSE), Finish(TRUE), Finish(TRUE) >>,
      << Call("zz", "data"), Malformed, Finish(TRUE), Finish(TRUE) >> }

GraphFallbackOutcomes ==
    { [n \in ToolNames |-> "data"], [n \in ToolNames |-> "empty"] }

\* the decisions, scripts and tool behaviours one stage is run on: every
\* sequence of MAX_STAGE_AGENT_STEPS decisions (what follows a decision that
\* ends the loop is never read and is fixed)
StageDecisions ==
    { Call(n, o) : n \in ToolNames, o \in ToolOutcomes }
        \cup { Call("zz", "data"), Finish(TRUE), Finish(FALSE), Malformed }

StageScripts ==
    { s \in [1..MAX_STAGE_AGENT_STEPS -> StageDecisions] :
        \A i \in 1..(MAX_STAGE_AGENT_STEPS - 1) :
            s[i].action # "call_tool" => s[i + 1] = Finish(FALSE) }

\* in a fallback run each invoked tool behaves the same way
StageFallbackOutcomes == { [n \in ToolNames |-> o] : o \in ToolOutcomes }

\* routing replies that name a stage
StageRoutingReplies ==
    { r \in RoutingReplies :
        r.kind = "object" /\ r.next \in AgentCodes /\ r.rationale = "text" }

\* ------------------------------------------------------------------------
\* The tool-provider registry (MCPAdapterClient), shared by concurrent runs
\* ------------------------------------------------------------------------
\* number of concurrent get_stage_tools calls
MaxCallers == 3

Callers == 1..MaxCallers

\* the configured servers (self._servers) and a name that is not configured
RegistryServers == {"s1", "s2"}

ServerNames == RegistryServers \cup {"u"}

\* the tools load_mcp_tools returns for a server when it succeeds
ServerTools(server) == << "tool_of_" \o server >>

\* the server lists get_stage_tools is called with
StageServerLists ==
    { << >>, << "s1" >>, << "s2" >>, << "s1", "s2" >>, << "s2", "s1", "s2" >>,
      << "u", "s1" >> }

\* _dedupe: the first occurrence of each value, in order
RECURSIVE Dedupe(_)
Dedupe(values) ==
    IF values = << >> THEN << >>
    ELSE LET front == Dedupe(SubSeq(values, 1, Len(values) - 1))
             last == values[Len(values)]
         IN  IF \E i \in 1..Len(front) : front[i] = last
             THEN front ELSE Append(front, last)

\* an entry of _tool_cache: absent (get returns None) or a tool list
NotCached == [cached |-> FALSE, tools |-> << >>]

Cached(tools) == [cached |-> TRUE, tools |-> tools]

\* an asyncio.Lock: the caller holding it (0: nobody) and the callers
\* suspended in acquire, in arrival order
FreeLock == [holder |-> 0, waiters |-> << >>]

\* self._locks.setdefault(server_name, asyncio.Lock()): the key of the lock
LockKey(server) == server

\* the first test, cached is not None, before the lock is taken
CacheHit(cache, server) == cache[server].cached

\* the second test under the lock always failing (C20 depends on it)
AlwaysMissing(cache, server) == TRUE

\* the second test under the lock: cached is None
StillMissing(cache, server) == ~cache[server].cached

\* load_mcp_tools raising and the exception leaving _get_tools_for_server
\* (C21 depends on the except clause)
DiscoveryPropagates(server, raises) ==
    [raised |-> raises, tools |-> IF raises THEN << >> ELSE ServerTools(server)]

\* try: tools = await load_mcp_tools(...)  except Exception: tools = []
DiscoveryOutcome(server, raises) ==
    [raised |-> FALSE, tools |-> IF raises THEN << >> ELSE ServerTools(server)]

VARIABLES
    tool_cache,         \* _tool_cache: server name -> cache entry
    locks,              \* _locks: lock key -> lock
    caller_pc,          \* each call: "idle", "resolve" (about to call
                        \* _get_tools_for_server), "wait" (suspended in
                        \* acquire), "discover" (suspended in
                        \* load_mcp_tools), "done", "raised"
    caller_request,     \* the server names the call was made with
    caller_todo,        \* the deduplicated servers it has not resolved yet
    caller_resolved,    \* the (server, tool) pairs it has collected
    discovery_calls     \* number of load_mcp_tools calls made per server

reg_vars ==
    << tool_cache, locks, caller_pc, caller_request, caller_todo,
       caller_resolved, discovery_calls >>

\* MCPAdapterClient.__init__, and no call made yet
RegistryInit ==
    /\ tool_cache = [s \in ServerNames |-> NotCached]
    /\ locks = [s \in ServerNames |-> FreeLock]
    /\ caller_pc = [c \in Callers |-> "idle"]
    /\ caller_request = [c \in Callers |-> << >>]
    /\ caller_todo = [c \in Callers |-> << >>]
    /\ caller_resolved = [c \in Callers |-> << >>]
    /\ discovery_calls = [s \in ServerNames |-> 0]

\* ------------------------------------------------------------------------
\* The run's state (GraphState) and the graph's position
\* ------------------------------------------------------------------------
\* ------------------------------------------------------------------------
\* The streaming session of /chat/langgraph: the session coroutine (sse), the
\* producer task (runner), the heartbeat task and the queue between them
\* ------------------------------------------------------------------------
\* events the agent's nodes emit in one run, and keep-alive chunks put
\* while the stream is read
MaxEvents == 2
MaxBeats == 1

\* events the graph nodes emit through the emitter
AgentEventKinds == {"reasoning", "token"}

SENTINEL == "__STREAM_DONE__"

\* an item put on the queue: its kind, its position among all items put,
\* and the number of the node emission it carries (0: not from a node)
QueueItem(kind, id, seq) == [kind |-> kind, id |-> id, seq |-> seq]

\* the items made of the given kinds, put after the items of put_log
ItemsAfter(log, kinds, seq) ==
    [i \in 1..Len(kinds) |-> QueueItem(kinds[i], Len(log) + i, seq)]

\* a queue handing out its newest item (C22 depends on the FIFO order)
QueueGetNewest(q) == [chunk |-> q[Len(q)], rest |-> SubSeq(q, 1, Len(q) - 1)]

\* queue.get() on a non-empty asyncio.Queue: the oldest item
QueueGet(q) == [chunk |-> Head(q), rest |-> Tail(q)]

\* the exception handler without the apology (C23 depends on both events)
OnExceptionErrorOnly == << "error" >>

\* except Exception: emit("error", str(e)); emit("token", apology)
OnException == << "error", "apology_token" >>

\* finally: emit("result", usage_summary); queue.put(SENTINEL)
OnFinally == << "result", SENTINEL >>

\* a cancel request the task never sees (C24 depends on the cancellation)
CancelIgnored(requested) == FALSE

\* task.cancel(): CancelledError is thrown into the task at the await it is
\* suspended in, whatever that await would have returned or raised
CancelDelivered(requested) == requested

\* a heartbeat that wakes and puts nothing (C38 depends on the chunk)
HeartbeatSilent == << >>

\* heartbeat: await queue.put(": keep-alive\n\n")
HeartbeatChunk == << "keep-alive" >>

\* the three streaming handlers: chat_stream, chat_langgraph,
\* orchestration_stream
StreamingEndpoints == {"/chat/stream", "/chat/langgraph", "/orchestration/stream"}

\* a finally clause putting the sentinel alone (C37 depends on the result
\* event of the chat endpoints)
SentinelOnly(handler) == << SENTINEL >>

\* the finally clause of a handler's runner: orchestration_stream puts the
\* sentinel alone
RunnerFinally(handler) ==
    IF handler = "/orchestration/stream" THEN << SENTINEL >> ELSE OnFinally

\* the except Exception clause of a handler's runner
RunnerOnException(handler) ==
    IF handler = "/orchestration/stream" THEN << "error" >> ELSE OnException

\* the kinds of item that are token events
TokenKinds == {"token", "apology_token"}

VARIABLES
    queue,                  \* the asyncio.Queue, oldest item first
    put_log,                \* every item ever put on the queue, in order
    delivered,              \* the chunks sse has yielded, in order
    client_disconnected,    \* the asyncio.Event
    client_gone,            \* request.is_disconnected() answers true
    sse_pc,                 \* "not_started", "check" (in is_disconnected),
                            \* "get" (in queue.get), "yield", "done"
    runner_pc,              \* "not_started", "load", "save" (in the
                            \* history store), "running" (in agent.run),
                            \* "persist", "finished", "failed", "cancelled"
    pinger_pc,              \* "not_started", "sleeping", "done", "cancelled"
    producer_cancel,        \* producer.cancel() was called
    pinger_cancel,          \* pinger.cancel() was called
    node_events,            \* number of events the nodes have emitted
    beats,                  \* number of heartbeat wake-ups, counted up to MaxBeats + 1
    endpoint                \* the streaming endpoint serving the request

sess_vars ==
    << queue, put_log, delivered, client_disconnected, client_gone, sse_pc,
       runner_pc, pinger_pc, producer_cancel, pinger_cancel, node_events, beats,
       endpoint >>

\* a streaming handler up to the StreamingResponse: nothing has run yet
SessionInitAt(endpoints) ==
    /\ endpoint \in endpoints
    /\ queue = << >>
    /\ put_log = << >>
    /\ delivered = << >>
    /\ client_disconnected = FALSE
    /\ client_gone = FALSE
    /\ sse_pc = "not_started"
    /\ runner_pc = "not_started"
    /\ pinger_pc = "not_started"
    /\ producer_cancel = FALSE
    /\ pinger_cancel = FALSE
    /\ node_events = 0
    /\ beats = 0

\* chat_langgraph up to the StreamingResponse
SessionInit == SessionInitAt({"/chat/langgraph"})

\* ------------------------------------------------------------------------
\* Calls of the tool lookup and of web_search
\* ------------------------------------------------------------------------
\* lengths of the tool names looked up and of the registry
MaxNameLen == 2
MaxRegistry == 2

ToolNameChars == {"a", "A", "-", " ", "_"}

\* the names get_mcp_tool is called with
LookupNames == SeqsUpTo(ToolNameChars, MaxNameLen)

\* the names a registry is made of
RegisteredNames == { << "a" >>, << "A" >>, << "a", "-" >>, << "a", "_" >> }

\* MCP_TOOL_REGISTRY as the list of its keys in insertion order
ToolRegistries ==
    { reg \in SeqsUpTo(RegisteredNames, MaxRegistry) :
        \A i, j \in 1..Len(reg) : i # j => reg[i] # reg[j] }

\* c.lower() and the two replacements, on one character
NormaliseChar(c) ==
    CASE c = "A" -> "a"
      [] c = "-" -> "_"
      [] c = " " -> "_"
      [] OTHER -> c

\* the normalisation without lower() (C26 depends on the lower-casing)
NormaliseKeepingCase(name) ==
    [i \in 1..Len(name) |-> IF name[i] = "A" THEN "A" ELSE NormaliseChar(name[i])]

\* name.lower().replace("-", "_").replace(" ", "_")
NormaliseToolName(name) == [i \in 1..Len(name) |-> NormaliseChar(name[i])]

\* MCP_TOOL_ALIAS_MAP.get(normalized): the last key of the registry with
\* this normal form, if any
AliasLookup(registry, normalized) ==
    LET hits == { i \in 1..Len(registry) : NormaliseToolName(registry[i]) = normalized }
    IN  IF hits = {} THEN [found |-> FALSE, name |-> << >>]
        ELSE [found |-> TRUE, name |-> registry[SetMax(hits)]]

\* _canonical_tool_name
CanonicalToolName(registry, tool_name) ==
    IF \E i \in 1..Len(registry) : registry[i] = tool_name
    THEN [raised |-> "", name |-> tool_name]
    ELSE LET canonical == AliasLookup(registry, NormaliseToolName(tool_name))
         IN  IF canonical.found /\ canonical.name # << >>
             THEN [raised |-> "", name |-> canonical.name]
             ELSE [raised |-> "ValueError", name |-> << >>]

\* get_mcp_tool: the exception raised, or the name the returned callable
\* is bound to
GetMcpTool(registry, tool_name) ==
    IF registry = << >> THEN [raised |-> "RuntimeError", name |-> << >>]
    ELSE CanonicalToolName(registry, tool_name)

\* no call made yet
NoLookup == [called |-> FALSE, registry |-> << >>, tool_name |-> << >>,
             raised |-> "", canonical |-> << >>]

\* items of a response list, and entries inside an item
MaxItems == 2
MaxEntries == 1

\* A JSON value of an MCP response, as far as the conversion reads it:
\*   t       "null", "scalar" (a number, a boolean, a string), "list",
\*           "dict"
\*   items   the items of a list, or of a dict's "data" entry
\*   data    for a dict: its "data" entry is "absent", a "list", or "other"
JsonValue(t, items, data) == [t |-> t, items |-> items, data |-> data]

\* An item of a response list:
\*   t        "text" (a string that is not JSON), "null", "scalar", "dict",
\*            "organic" (a dict with an organic_results list), "list"
\*   encoded  the item is the JSON text of the value, not the value
\*   dicts    for "organic" and "list": how many entries are dicts
\*   others   and how many are not
ResponseItem(t, encoded, dicts, others) ==
    [t |-> t, encoded |-> encoded, dicts |-> dicts, others |-> others]

ResponseItems ==
    { ResponseItem("text", FALSE, 0, 0) }
        \cup { ResponseItem(t, e, 0, 0) : t \in {"null", "scalar", "dict"}, e \in BOOLEAN }
        \cup { ResponseItem(t, FALSE, d, o) :
                 t \in {"organic", "list"}, d \in 0..MaxEntries, o \in 0..MaxEntries }

ItemLists == SeqsUpTo(ResponseItems, MaxItems)

JsonValues ==
    { JsonValue("scalar", << >>, "absent"), JsonValue("dict", << >>, "absent"),
      JsonValue("dict", << >>, "other") }
        \cup { JsonValue("list", items, "absent") : items \in ItemLists }
        \cup { JsonValue("dict", items, "list") : items \in ItemLists }

\* What the MCP search tool returns: None, a string that is not JSON, the
\* JSON text of a value (null included), or a value
McpResponses ==
    { [form |-> "none", value |-> JsonValue("null", << >>, "absent")],
      [form |-> "text", value |-> JsonValue("null", << >>, "absent")],
      [form |-> "json_text", value |-> JsonValue("null", << >>, "absent")] }
        \cup [form : {"json_text", "value"}, value : JsonValues]

\* the result entries one item of the list contributes: a string item is
\* parsed first and dropped when it is no JSON or JSON null; a list gives
\* its dict entries; a dict goes through _flatten_mcp_entry
ItemEntries(item) ==
    CASE item.t = "text" -> 0
      [] item.t = "null" -> 0
      [] item.t = "scalar" -> 0
      [] item.t = "dict" -> 1
      [] item.t = "list" -> item.dicts
      [] item.t = "organic" -> IF item.dicts + item.others > 0 THEN item.dicts ELSE 1

RECURSIVE CountEntries(_)
CountEntries(items) ==
    IF items = << >> THEN 0
    ELSE ItemEntries(Head(items)) + CountEntries(Tail(items))

\* _register_results: one output per entry, numbered from 0
RegisterResults(count) == [i \in 1..count |-> i - 1]

\* the test on the parsed string taking JSON null for a value (C27 depends
\* on `parsed is None`)
ParsedIsNoneOnlyForText(raw) == raw.form = "text"

\* parsed = _try_parse_json(raw); parsed is None
ParsedIsNone(raw) ==
    \/ raw.form = "text"
    \/ raw.form = "json_text" /\ raw.value.t = "null"

\* _convert_mcp_results: None, or the list of registered results
ConvertMcpResults(raw) ==
    IF raw.form = "none" THEN [none |-> TRUE, results |-> << >>]
    ELSE IF raw.form \in {"text", "json_text"} /\ ParsedIsNone(raw)
    THEN [none |-> TRUE, results |-> << >>]
    ELSE LET v == raw.value
             items == IF v.t = "list" THEN v.items
                      ELSE IF v.t = "dict" /\ v.data = "list" THEN v.items
                      ELSE << >>
         IN  [none |-> FALSE, results |-> RegisterResults(CountEntries(items))]

\* web_search: what it returns and where it came from ("invalid": the
\* validation error text; "mcp"; "tavily")
WebSearch(valid, configured, raises, raw) ==
    IF ~valid THEN [source |-> "invalid", results |-> << >>]
    ELSE IF configured /\ ~raises /\ ~ConvertMcpResults(raw).none
    THEN [source |-> "mcp", results |-> ConvertMcpResults(raw).results]
    ELSE [source |-> "tavily", results |-> << >>]

\* no call made yet
NoSearch ==
    [called |-> FALSE, valid |-> TRUE, configured |-> FALSE, raises |-> FALSE,
     raw |-> [form |-> "none", value |-> JsonValue("null", << >>, "absent")],
     converted |-> [none |-> TRUE, results |-> << >>],
     source |-> "", results |-> << >>]

\* ------------------------------------------------------------------------
\* The meaningfulness filter (_is_meaningful_result)
\* ------------------------------------------------------------------------
\* longest list and largest mapping among the results
MaxListLen == 2
MaxFields == 2

\* A tool result: None, a string (empty, blank, plain text, or the JSON
\* text of the value in items), a number, a list, or a mapping.
ResultValue(t, text, items, fields) ==
    [t |-> t, text |-> text, items |-> items, fields |-> fields]

NoFields == [k \in {} |-> 0]
NoneResult == ResultValue("null", "", << >>, NoFields)
StrResult(text) == ResultValue("str", text, << >>, NoFields)
JsonText(value) == ResultValue("str", "json", << value >>, NoFields)
NumResult == ResultValue("num", "", << >>, NoFields)
ListResult(items) == ResultValue("list", "", items, NoFields)
DictResult(fields) == ResultValue("dict", "", << >>, fields)

\* results without anything inside them
LeafResults ==
    { NoneResult, StrResult(""), StrResult(" "), StrResult("plain"), NumResult,
      ListResult(<< >>), DictResult(NoFields) }

ResultKeys == {"hits", "results", "data", "other"}

\* values of a pagination field
HitsValues == LeafResults \cup { ListResult(<< NumResult >>), ListResult(<< NoneResult >>) }

\* values of data.search and of data
SearchValues ==
    LeafResults \cup { DictResult([k \in {"hits"} |-> h]) : h \in HitsValues }

DataValues ==
    LeafResults \cup { DictResult([k \in {"search"} |-> x]) : x \in SearchValues }

FieldValues(key) ==
    CASE key \in {"hits", "results"} -> HitsValues
      [] key = "data" -> DataValues
      [] OTHER -> LeafResults \cup { ListResult(<< NoneResult >>) }

DictResults ==
    UNION { { DictResult(f) :
                f \in { g \in [K -> HitsValues \cup DataValues] :
                          \A k \in K : g[k] \in FieldValues(k) } } :
            K \in { J \in SUBSET ResultKeys : Cardinality(J) \in 1..MaxFields } }

ListResults == { ListResult(items) : items \in SeqsUpTo(LeafResults, MaxListLen) }

NestedResults ==
    { ListResult(<< v >>) :
        v \in { ListResult(<< NoneResult >>), ListResult(<< NumResult >>),
                DictResult([k \in {"other"} |-> NoneResult]),
                DictResult([k \in {"hits"} |-> ListResult(<< >>)]),
                JsonText(ListResult(<< >>)) } }

JsonTexts ==
    { JsonText(v) : v \in LeafResults \cup NestedResults
                          \cup { ListResult(<< NoneResult >>),
                                 DictResult([k \in {"hits"} |-> ListResult(<< >>)]),
                                 DictResult([k \in {"other"} |-> StrResult("plain")]) } }

ToolResults == LeafResults \cup ListResults \cup DictResults \cup NestedResults \cup JsonTexts

\* a pagination field that is never looked at (C34 depends on the test)
PaginationIgnored(fields, key) == FALSE

\* key in result and isinstance(result[key], list) and len(result[key]) == 0
PaginationEmpty(fields, key) ==
    /\ key \in DOMAIN fields
    /\ fields[key].t = "list"
    /\ fields[key].items = << >>

\* "data" in result, data a dict, "search" in data, search a dict with
\* an empty "hits" list
NestedHitsEmpty(fields) ==
    /\ "data" \in DOMAIN fields
    /\ fields["data"].t = "dict"
    /\ "search" \in DOMAIN fields["data"].fields
    /\ fields["data"].fields["search"].t = "dict"
    /\ PaginationEmpty(fields["data"].fields["search"].fields, "hits")

\* value is not None and value != "" and value != [] and value != {}
FilledValue(value) ==
    value \notin { NoneResult, StrResult(""), ListResult(<< >>), DictResult(NoFields) }

\* _is_meaningful_result
RECURSIVE IsMeaningfulResult(_)
IsMeaningfulResult(result) ==
    CASE result.t = "null" -> FALSE
      [] result.t = "str" ->
            IF result.text \in {"", " "} THEN FALSE
            ELSE IF result.text = "json" THEN IsMeaningfulResult(result.items[1])
            ELSE TRUE
      [] result.t = "dict" ->
            IF DOMAIN result.fields = {} THEN FALSE
            ELSE IF PaginationEmpty(result.fields, "hits") THEN FALSE
            ELSE IF NestedHitsEmpty(result.fields) THEN FALSE
            ELSE IF PaginationEmpty(result.fields, "results") THEN FALSE
            ELSE \E k \in DOMAIN result.fields : FilledValue(result.fields[k])
      [] result.t = "list" ->
            IF result.items = << >> THEN FALSE
            ELSE \E i \in 1..Len(result.items) : IsMeaningfulResult(result.items[i])
      [] OTHER -> TRUE

\* no call made yet
NoFilterCall == [called |-> FALSE, result |-> NoneResult, answer |-> FALSE, again |-> FALSE]

\* ------------------------------------------------------------------------
\* MCPChatAgent.run
\* ------------------------------------------------------------------------
MAX_TOOL_LOOPS == 5

\* most tool calls one model reply requests
MaxToolCalls == 3

\* how _handle_tool_calls settles one requested call
ToolCallOutcomes == {"missing_name", "unavailable", "failed", "completed"}

\* the tool_outputs entry of a call: calls without a name or without a
\* function in tool_map get an "error" entry with the message; calls that
\* ran get an "output" entry, with the result or, when the function
\* raised, with the failure text
ToolOutputEntry(outcome) ==
    CASE outcome = "missing_name" ->
           [key |-> "error", value |-> "Tool call missing name."]
      [] outcome = "unavailable" ->
           [key |-> "error", value |-> "Requested tool is not available."]
      [] outcome = "failed" ->
           [key |-> "output", value |-> "Tool failed"]
      [] OTHER ->
           [key |-> "output", value |-> "result"]

\* for turn in range(self.MAX_TOOL_LOOPS): the body runs for this turn, or
\* the loop is exhausted and run raises
LoopStep(turn) ==
    IF turn < MAX_TOOL_LOOPS
    THEN [pc |-> "llm", turn |-> turn, error |-> ""]
    ELSE [pc |-> "raised", turn |-> turn,
          error |-> "Exceeded maximum tool loops without reaching a final answer"]

\* a loop that goes round again once the tool calls are handled
NextTurnAfterToolCalls(turn) == LoopStep(turn + 1)

\* after _handle_tool_calls: the answer is asked of _simple_llm_call and
\* run returns it
AfterToolCalls(turn) == [pc |-> "answer", turn |-> turn, error |-> ""]

\* ------------------------------------------------------------------------
\* Runs of one process: each /chat/langgraph request builds its agent
\* ------------------------------------------------------------------------
\* requests served by the process, and stage executions of one run
MaxRuns == 2
MaxRunStages == 2
Runs == 1..MaxRuns

\* MCPAdapterClient.__init__: self._tool_cache = {}
EmptyToolCache == [s \in RegistryServers |-> NotCached]

\* self._mcp_adapter = MCPAdapterClient(): a new client, with its own
\* cache, for the agent being built; the result is the client's position
\* among the clients of the process
NewAdapter(clients) == Append(clients, EmptyToolCache)

VARIABLES
    tool_lookup,            \* the last get_mcp_tool call and its outcome
    web_search_call,        \* the last web_search call and its outcome
    adapters,               \* the MCPAdapterClient objects built so far:
                            \* the _tool_cache of each
    run_pc,                 \* each run: "idle", "ready" (agent built),
                            \* "discover" (suspended in load_mcp_tools),
                            \* "ended"
    run_adapter,            \* the client of the run's agent (0: none yet)
    run_server,             \* the server the run is resolving
    run_tools,              \* the tool list the run's last stage resolved
    run_stages,             \* stage executions of the run so far
    load_calls,             \* load_mcp_tools calls made in the process,
                            \* per server
    filter_call,            \* the last _is_meaningful_result call: its
                            \* argument, its answer, and the answer of a
                            \* second call on the same argument
    chat_pc,                \* MCPChatAgent.run: "idle", "llm" (in
                            \* _invoke_llm), "tools" (in
                            \* _handle_tool_calls), "answer" (in
                            \* _simple_llm_call), "returned", "raised"
    chat_turn,              \* the loop variable turn
    chat_llm_calls,         \* tool-enabled model calls (_invoke_llm) made
    chat_answer_calls,      \* tool-less model calls (_simple_llm_call) made
    chat_tool_rounds,       \* rounds of tool calls executed
    chat_fed_back,          \* a tool-enabled call was made after tool
                            \* results had been appended to the messages
    chat_error,             \* the message of the error run raised
    chat_messages,          \* states.messages, by role
    chat_pending,           \* tool calls of the reply not yet handled
    chat_outputs,           \* tool_outputs: the "output" or "error" of each call
    chat_answer             \* the answer run returned: "" (none),
                            \* "content" (the reply's text), "answer"
                            \* (_simple_llm_call's text), "failed"
                            \* ("Failed to generate answer.")

run_vars ==
    << adapters, run_pc, run_adapter, run_server, run_tools, run_stages,
       load_calls >>

chat_vars ==
    << chat_pc, chat_turn, chat_llm_calls, chat_answer_calls, chat_tool_rounds,
       chat_fed_back, chat_error, chat_messages, chat_pending, chat_outputs,
       chat_answer >>

fn_vars == << filter_call, chat_vars >>

call_vars == << tool_lookup, web_search_call, run_vars, fn_vars >>

CallsInit ==
    /\ tool_lookup = NoLookup
    /\ web_search_call = NoSearch
    /\ adapters = << >>
    /\ run_pc = [r \in Runs |-> "idle"]
    /\ run_adapter = [r \in Runs |-> 0]
    /\ run_server = [r \in Runs |-> ""]
    /\ run_tools = [r \in Runs |-> << >>]
    /\ run_stages = [r \in Runs |-> 0]
    /\ load_calls = [s \in RegistryServers |-> 0]
    /\ filter_call = NoFilterCall
    /\ chat_pc = "idle"
    /\ chat_turn = 0
    /\ chat_llm_calls = 0
    /\ chat_answer_calls = 0
    /\ chat_tool_rounds = 0
    /\ chat_fed_back = FALSE
    /\ chat_error = ""
    /\ chat_messages = << >>
    /\ chat_pending = 0
    /\ chat_outputs = << >>
    /\ chat_answer = ""

VARIABLES
    pc,                     \* the node to execute next, "END", or "FAILED"
                            \* once a node has raised
    stage_env,              \* the deployment: stage key -> [servers, tools]
    original_question,
    messages,
    history,
    next,
    step_count,
    current_search_query,   \* None is kept as the empty text: every read
                            \* of it only tests whether it is empty
    final_answer,
    document_results,
    mcp_tool_results,       \* stage title -> (tool label -> list of outputs)
    workflow_trace,
    classify_is_mcp,        \* _classify_is_mcp (a missing key reads as false)
    classify_llm_result,    \* _classify_llm_result
    classify_keyword_match, \* _classify_keyword_match
    stage_visit_counts,     \* _stage_visit_counts
    history_needs_summary,  \* _history_needs_summary
    classify_mcp_raw,       \* the routing reply classify_mcp received, until
                            \* the node it routed to has run
    stage_run,              \* what the stage node just executed was given
                            \* (the decisions of the stage model if the
                            \* agent ran, the tools' behaviour if the
                            \* fallback ran) and did, until the next node
                            \* has run
    executed,               \* the nodes executed so far, in order
    final_answer_writes,    \* number of assignments to final_answer
    final_answer_readers    \* the nodes that have read final_answer

graph_vars ==
    << pc, stage_env, original_question, messages, history, next, step_count,
       current_search_query, final_answer, document_results, mcp_tool_results,
       workflow_trace, classify_is_mcp, classify_llm_result,
       classify_keyword_match, stage_visit_counts, history_needs_summary,
       classify_mcp_raw, stage_run, executed, final_answer_writes,
       final_answer_readers >>

vars == << graph_vars, reg_vars, sess_vars, call_vars >>

\* no routing reply received yet
NoReply == [kind |-> "none", next |-> "absent", rationale |-> "empty"]

\* no stage node has just run
NoStageRun ==
    [key |-> "", env |-> NoServers, script |-> << >>,
     outcome |-> [n \in {} |-> ""], ran_fallback |-> FALSE,
     agent_invoked |-> 0, fallback_invoked |-> << >>, decisions |-> 0]

\* LangGraphSearchAgent.run: initial_state, with the graph at its entry
\* point
GraphInit(questions, priors, deployments) ==
    /\ pc = "router"
    /\ stage_env \in deployments
    /\ original_question \in questions
    /\ \E prior \in priors :
         /\ messages = prior \o << HistoryEntry("user", Len(original_question)) >>
         /\ history = prior \o << HistoryEntry("user", Len(original_question)) >>
    /\ next = ""
    /\ step_count = 0
    /\ current_search_query = << >>
    /\ final_answer = NULL
    /\ document_results = << >>
    /\ mcp_tool_results = EmptyMap
    /\ workflow_trace = << >>
    /\ classify_is_mcp = FALSE
    /\ classify_llm_result = << >>
    /\ classify_keyword_match = FALSE
    /\ stage_visit_counts = NoVisits
    /\ history_needs_summary = FALSE
    /\ classify_mcp_raw = NoReply
    /\ stage_run = NoStageRun
    /\ executed = << >>
    /\ final_answer_writes = 0
    /\ final_answer_readers = {}

InitWith(questions, priors, deployments) ==
    /\ GraphInit(questions, priors, deployments)
    /\ RegistryInit
    /\ SessionInit
    /\ CallsInit

Init == InitWith(GraphQuestions, PriorConversations, Deployments)

\* ------------------------------------------------------------------------
\* The nodes.  Each action is one node together with the conditional edge
\* that follows it in _build_graph.
\* ------------------------------------------------------------------------
Ran(node) == executed' = Append(executed, node)

\* _router_node, then the edge router -> classify
router_node ==
    /\ pc = "router"
    /\ pc' = "classify"
    /\ Ran("router")
    /\ UNCHANGED << reg_vars, sess_vars, call_vars,
                    stage_run, stage_env, original_question, messages, history, next,
                    step_count, current_search_query, final_answer,
                    document_results, mcp_tool_results, workflow_trace,
                    classify_is_mcp, classify_llm_result, classify_keyword_match,
                    stage_visit_counts, history_needs_summary, classify_mcp_raw,
                    final_answer_writes, final_answer_readers >>

\* ClassifyBranch ignoring the flag (C10 depends on the branch)
ClassifyBranchAlwaysMcp(is_mcp) == "classify_mcp"

\* classify_branch
ClassifyBranch(is_mcp) == IF is_mcp THEN "classify_mcp" ELSE "direct_answer"

\* _classify_node on the LLM reply `raw`, then classify_branch
classify_node(replies) ==
    /\ pc = "classify"
    /\ \E raw \in replies :
         LET result == CleanVerdict(raw)
             is_mcp == ClassifyIsMcp(result, original_question)
         IN  /\ classify_llm_result' = result
             /\ classify_is_mcp' = is_mcp
             /\ classify_keyword_match' = DetectProfessionalKeywords(original_question)
             /\ history' = Append(history,
                                  ClassifyNote(is_mcp, result,
                                               ExpertSimScore(original_question)))
             /\ pc' = ClassifyBranch(is_mcp)
    /\ Ran("classify")
    /\ UNCHANGED << reg_vars, sess_vars, call_vars,
                    stage_run, stage_env, original_question, messages, next, step_count,
                    current_search_query, final_answer, document_results,
                    mcp_tool_results, workflow_trace, stage_visit_counts,
                    history_needs_summary, classify_mcp_raw,
                    final_answer_writes, final_answer_readers >>

\* ClassifyMcpBranch sending AG straight to synthesis (C7 depends on the
\* edge classify_mcp -> search_query)
ClassifyMcpBranchSkipsSearch(choice) ==
    IF choice = "AG" THEN "final_answer" ELSE "mcp_execution"

\* classify_mcp_branch
ClassifyMcpBranch(choice) == IF choice = "AG" THEN "search_query" ELSE "mcp_execution"

\* _classify_mcp_node, then classify_mcp_branch
classify_mcp_node(replies) ==
    /\ pc = "classify_mcp"
    /\ Ran("classify_mcp")
    /\ IF RouteToRag(stage_visit_counts, step_count)
       THEN /\ next' = "AG"
            /\ history' = Append(history,
                                 RagNote(step_count >= MAX_WORKFLOW_ITERATIONS))
            /\ pc' = ClassifyMcpBranch("AG")
            /\ UNCHANGED classify_mcp_raw
       ELSE \E reply \in replies :
              /\ classify_mcp_raw' = reply
              /\ IF ClassifyMcpRaises(reply, stage_visit_counts)
                 THEN /\ pc' = "FAILED"
                      /\ UNCHANGED << next, history >>
                 ELSE LET pending_agent == NextUnvisitedAgent(stage_visit_counts)
                          choice == ClassifyMcpChoice(reply, stage_visit_counts)
                          overridden ==
                              OverrideApplies(ValidatedChoice(reply, pending_agent),
                                              stage_visit_counts, pending_agent)
                          has_rationale ==
                              \/ reply.kind = "not_json"
                              \/ ParsedChoice(reply, pending_agent) \notin MCP_AGENT_CHOICES
                              \/ reply.rationale # "empty"
                      IN  /\ next' = choice
                          /\ history' = Append(history,
                                               SelectedNote(overridden, has_rationale))
                          /\ pc' = ClassifyMcpBranch(choice)
    /\ UNCHANGED << reg_vars, sess_vars, call_vars,
                    stage_run, stage_env, original_question, messages, step_count,
                    current_search_query, final_answer, document_results,
                    mcp_tool_results, workflow_trace, classify_is_mcp,
                    classify_llm_result, classify_keyword_match,
                    stage_visit_counts, history_needs_summary,
                    final_answer_writes, final_answer_readers >>

\* stage_key = MCP_AGENT_TO_STAGE.get(next_agent, default_stage), with
\* next_agent = (state.get("next", "TV") or "TV").upper()
StageForAgent(next_agent) ==
    IF next_agent \in AgentCodes THEN MCP_AGENT_TO_STAGE(next_agent)
    ELSE WORKFLOW_DEFINITION[1]

\* workflow_results[stage_title] dropping the other stages' entries (C18
\* depends on their being kept)
StoreOnlyStageResults(all, title, results) == (title :> results)

\* workflow_results[stage_title] = stage_results
StoreStageResults(all, title, results) == (title :> results) @@ all

\* the visit count going up by 2 (C19 depends on the step of 1)
CountVisitTwice(stage_visits, stage_key) ==
    [stage_visits EXCEPT ![stage_key] = @ + 2]

\* stage_visits[stage_key] = stage_visits.get(stage_key, 0) + 1
CountVisit(stage_visits, stage_key) ==
    [stage_visits EXCEPT ![stage_key] = @ + 1]

\* _execute_mcp_node: the stage node of the chosen agent, the history
\* entry, the visit count; then the edge to history_length_check.  A stage
\* agent that raises ends the run.  env_of gives, for each stage, what the
\* stage node finds when it resolves the stage's provider groups.
execute_stage(env_of, scripts, outcomes) ==
    /\ pc = "mcp_execution"
    /\ Ran("mcp_execution")
    /\ classify_mcp_raw' = NoReply
    /\ LET stage_key == StageForAgent(IF next = "" THEN "TV" ELSE next)
           title == StageTitle(stage_key)
           query == IF current_search_query # << >>
                    THEN current_search_query ELSE original_question
       IN  \E script \in scripts, outcome \in outcomes :
             LET done == StageNode(title, env_of[stage_key], query, script, outcome)
             IN  IF done.raised
                 THEN /\ pc' = "FAILED"
                      /\ UNCHANGED << mcp_tool_results, workflow_trace, history,
                                      stage_visit_counts, stage_run >>
                 ELSE /\ stage_run' = [key |-> stage_key,
                                       env |-> env_of[stage_key],
                                       script |->
                                         IF env_of[stage_key].tools = << >>
                                         THEN << >> ELSE script,
                                       outcome |->
                                         IF done.ran_fallback
                                         THEN outcome ELSE NoStageRun.outcome,
                                       ran_fallback |-> done.ran_fallback,
                                       agent_invoked |-> done.agent_invoked,
                                       fallback_invoked |-> done.fallback_invoked,
                                       decisions |-> done.decisions]
                      /\ mcp_tool_results' =
                            StoreStageResults(mcp_tool_results, title, done.results)
                      /\ workflow_trace' = Append(workflow_trace, done.entry)
                      /\ history' = Append(history, ExecutedNote(stage_key))
                      /\ stage_visit_counts' = CountVisit(stage_visit_counts, stage_key)
                      /\ pc' = "history_length_check"
    /\ UNCHANGED << reg_vars, sess_vars, call_vars,
                    stage_env, original_question, messages, next, step_count,
                    current_search_query, final_answer, document_results,
                    classify_is_mcp, classify_llm_result, classify_keyword_match,
                    history_needs_summary,
                    final_answer_writes, final_answer_readers >>

\* the stage node on the deployment the run was given
execute_mcp_node(scripts, outcomes) == execute_stage(stage_env, scripts, outcomes)

\* history_branch
\* history_branch never choosing the summary (C31 depends on the branch)
HistoryBranchNever(needs_summary) == "increment_step"

\* history_branch
HistoryBranch(needs_summary) == IF needs_summary THEN "summary" ELSE "increment_step"

\* _history_length_check_node, then history_branch
history_length_check_node ==
    /\ pc = "history_length_check"
    /\ Ran("history_length_check")
    /\ history_needs_summary' = NeedsSummary(history)
    /\ stage_run' = NoStageRun
    /\ pc' = HistoryBranch(history_needs_summary')
    /\ UNCHANGED << reg_vars, sess_vars, call_vars,
                    stage_env, original_question, messages, history, next,
                    step_count, current_search_query, final_answer,
                    document_results, mcp_tool_results, workflow_trace,
                    classify_is_mcp, classify_llm_result, classify_keyword_match,
                    stage_visit_counts, classify_mcp_raw,
                    final_answer_writes, final_answer_readers >>

\* _summary_node on a summary of `size` characters after strip (0: the
\* model returned blank text, nothing is appended); then summary ->
\* increment_step
summary_node(sizes) ==
    /\ pc = "summary"
    /\ Ran("summary")
    /\ \E size \in sizes :
         history' = IF size > 0 THEN Append(history, SummaryNote(size)) ELSE history
    /\ history_needs_summary' = FALSE
    /\ pc' = "increment_step"
    /\ UNCHANGED << reg_vars, sess_vars, call_vars,
                    stage_run, stage_env, original_question, messages, next, step_count,
                    current_search_query, final_answer, document_results,
                    mcp_tool_results, workflow_trace, classify_is_mcp,
                    classify_llm_result, classify_keyword_match,
                    stage_visit_counts, classify_mcp_raw,
                    final_answer_writes, final_answer_readers >>

\* step_branch
StepBranch(count) ==
    IF count >= MAX_WORKFLOW_ITERATIONS THEN "search_query" ELSE "classify_mcp"

\* IncrementStep counting down (C3 depends on the increment)
DecrementStep(current) == current - 1

\* state["step_count"] = current + 1
IncrementStep(current) == current + 1

\* _increment_step_node, then step_branch
increment_step_node ==
    /\ pc = "increment_step"
    /\ Ran("increment_step")
    /\ step_count' = IncrementStep(step_count)
    /\ history' = Append(history, CounterNote(step_count'))
    /\ pc' = StepBranch(step_count')
    /\ UNCHANGED << reg_vars, sess_vars, call_vars,
                    stage_run, stage_env, original_question, messages, next,
                    current_search_query, final_answer, document_results,
                    mcp_tool_results, workflow_trace, classify_is_mcp,
                    classify_llm_result, classify_keyword_match,
                    stage_visit_counts, history_needs_summary, classify_mcp_raw,
                    final_answer_writes, final_answer_readers >>

\* _search_query_node, then search_query -> vector_search
search_query_node ==
    /\ pc = "search_query"
    /\ Ran("search_query")
    /\ classify_mcp_raw' = NoReply
    /\ current_search_query' = original_question
    /\ pc' = "vector_search"
    /\ UNCHANGED << reg_vars, sess_vars, call_vars,
                    stage_run, stage_env, original_question, messages, history, next,
                    step_count, final_answer, document_results, mcp_tool_results,
                    workflow_trace, classify_is_mcp, classify_llm_result,
                    classify_keyword_match, stage_visit_counts,
                    history_needs_summary,
                    final_answer_writes, final_answer_readers >>

\* _vector_search_node, then vector_search -> final_answer.  The search is
\* skipped without a query or without a vector database; otherwise
\* document_results is what hybrid_search returns.
vector_search_node ==
    /\ pc = "vector_search"
    /\ Ran("vector_search")
    /\ \E db_available \in BOOLEAN, results \in { << >>, << "doc" >> } :
         document_results' =
             IF current_search_query # << >> /\ db_available
             THEN results ELSE document_results
    /\ pc' = "final_answer"
    /\ UNCHANGED << reg_vars, sess_vars, call_vars,
                    stage_run, stage_env, original_question, messages, history, next,
                    step_count, current_search_query, final_answer,
                    mcp_tool_results, workflow_trace, classify_is_mcp,
                    classify_llm_result, classify_keyword_match,
                    stage_visit_counts, history_needs_summary, classify_mcp_raw,
                    final_answer_writes, final_answer_readers >>

\* the content of the final message the model streams
AnswerTexts == {"", "text"}

\* StoreAnswer appending the message without assigning final_answer (C8
\* depends on the assignment)
StoreAnswerLost(content) ==
    /\ messages' = Append(messages, HistoryEntry("assistant", Len(content)))
    /\ final_answer' = final_answer
    /\ final_answer_writes' = final_answer_writes

\* state["messages"].append(final_message);
\* state["final_answer"] = final_message.get("content", "")
StoreAnswer(content) ==
    /\ messages' = Append(messages, HistoryEntry("assistant", Len(content)))
    /\ final_answer' = content
    /\ final_answer_writes' = final_answer_writes + 1

\* _direct_answer_node, then END
direct_answer_node ==
    /\ pc = "direct_answer"
    /\ Ran("direct_answer")
    /\ \E content \in AnswerTexts : StoreAnswer(content)
    /\ pc' = "END"
    /\ UNCHANGED << reg_vars, sess_vars, call_vars,
                    stage_run, stage_env, original_question, history, next, step_count,
                    current_search_query, document_results, mcp_tool_results,
                    workflow_trace, classify_is_mcp, classify_llm_result,
                    classify_keyword_match, stage_visit_counts,
                    history_needs_summary, classify_mcp_raw, final_answer_readers >>

\* any(workflow_results.values())
AnyResults(results) == \E t \in DOMAIN results : DOMAIN results[t] # {}

\* _final_answer_node, then END: without stage results it answers as
\* _direct_answer_node does; with results it writes the report and then
\* builds the UI payload, whose report card reads final_answer.
final_answer_node ==
    /\ pc = "final_answer"
    /\ Ran("final_answer")
    /\ \E content \in AnswerTexts : StoreAnswer(content)
    /\ final_answer_readers' =
         IF AnyResults(mcp_tool_results)
         THEN final_answer_readers \cup {"final_answer"}
         ELSE final_answer_readers
    /\ pc' = "END"
    /\ UNCHANGED << reg_vars, sess_vars, call_vars,
                    stage_run, stage_env, original_question, history, next, step_count,
                    current_search_query, document_results, mcp_tool_results,
                    workflow_trace, classify_is_mcp, classify_llm_result,
                    classify_keyword_match, stage_visit_counts,
                    history_needs_summary, classify_mcp_raw >>

\* ------------------------------------------------------------------------
\* The registry's operations.  A call runs without interruption between
\* two awaits that suspend it: lock.acquire on a held lock, load_mcp_tools.
\* ------------------------------------------------------------------------
\* resolved.extend(ResolvedMCPTool(server_name, tool) for tool in tools)
Extend(resolved, server, tools) ==
    resolved \o [i \in 1..Len(tools) |-> << server, tools[i] >>]

\* the call has the tools of the server it was resolving: collect them and
\* go on to the next server, or return
Collected(c, server, tools) ==
    /\ caller_resolved' = [caller_resolved EXCEPT ![c] = Extend(@, server, tools)]
    /\ caller_todo' = [caller_todo EXCEPT ![c] = Tail(@)]
    /\ caller_pc' = [caller_pc EXCEPT
                       ![c] = IF Tail(caller_todo[c]) = << >> THEN "done" ELSE "resolve"]

\* get_stage_tools(server_names) is called
get_stage_tools(c, requests) ==
    /\ caller_pc[c] = "idle"
    /\ \E server_names \in requests :
         /\ caller_request' = [caller_request EXCEPT ![c] = server_names]
         /\ caller_todo' = [caller_todo EXCEPT ![c] = Dedupe(server_names)]
         /\ caller_pc' = [caller_pc EXCEPT
                            ![c] = IF Dedupe(server_names) = << >>
                                   THEN "done" ELSE "resolve"]
    /\ UNCHANGED << graph_vars, sess_vars, call_vars,
                    tool_cache, locks, caller_resolved, discovery_calls >>

\* _get_tools_for_server up to its first suspension: a cache hit returns,
\* an unknown server is cached as empty, otherwise the lock is taken and
\* discovery starts, or the call queues on the held lock
get_tools_for_server(c) ==
    /\ caller_pc[c] = "resolve"
    /\ LET server == Head(caller_todo[c])
           key == LockKey(server)
       IN  IF CacheHit(tool_cache, server)
           THEN /\ Collected(c, server, tool_cache[server].tools)
                /\ UNCHANGED << tool_cache, locks, discovery_calls >>
           ELSE IF server \notin RegistryServers
           THEN /\ tool_cache' = [tool_cache EXCEPT ![server] = Cached(<< >>)]
                /\ Collected(c, server, << >>)
                /\ UNCHANGED << locks, discovery_calls >>
           ELSE IF locks[key].holder = 0 /\ locks[key].waiters = << >>
           THEN IF StillMissing(tool_cache, server)
                THEN /\ locks' = [locks EXCEPT ![key].holder = c]
                     /\ discovery_calls' = [discovery_calls EXCEPT ![server] = @ + 1]
                     /\ caller_pc' = [caller_pc EXCEPT ![c] = "discover"]
                     /\ UNCHANGED << tool_cache, caller_todo, caller_resolved >>
                ELSE /\ Collected(c, server, tool_cache[server].tools)
                     /\ UNCHANGED << tool_cache, locks, discovery_calls >>
           ELSE /\ locks' = [locks EXCEPT ![key].waiters = Append(@, c)]
                /\ caller_pc' = [caller_pc EXCEPT ![c] = "wait"]
                /\ UNCHANGED << tool_cache, caller_todo, caller_resolved,
                                discovery_calls >>
    /\ UNCHANGED << graph_vars, sess_vars, call_vars,
                    caller_request >>

\* the lock was released and this call is the first in its queue: it takes
\* the lock, tests the cache again, and returns the cached list (releasing
\* the lock) or starts discovery
lock_acquired(c) ==
    /\ caller_pc[c] = "wait"
    /\ LET server == Head(caller_todo[c])
           key == LockKey(server)
       IN  /\ locks[key].holder = 0
           /\ locks[key].waiters # << >>
           /\ Head(locks[key].waiters) = c
           /\ IF StillMissing(tool_cache, server)
              THEN /\ locks' = [locks EXCEPT ![key] =
                                  [holder |-> c, waiters |-> Tail(@.waiters)]]
                   /\ discovery_calls' = [discovery_calls EXCEPT ![server] = @ + 1]
                   /\ caller_pc' = [caller_pc EXCEPT ![c] = "discover"]
                   /\ UNCHANGED << tool_cache, caller_todo, caller_resolved >>
              ELSE /\ locks' = [locks EXCEPT ![key] =
                                  [holder |-> 0, waiters |-> Tail(@.waiters)]]
                   /\ Collected(c, server, tool_cache[server].tools)
                   /\ UNCHANGED << tool_cache, discovery_calls >>
    /\ UNCHANGED << graph_vars, sess_vars, call_vars,
                    caller_request >>

\* load_mcp_tools returns the server's tools or raises (tools = []); the
\* list is cached and the lock released
discovery_returns(c, raises) ==
    /\ caller_pc[c] = "discover"
    /\ LET server == Head(caller_todo[c])
           key == LockKey(server)
           loaded == DiscoveryOutcome(server, raises)
       IN  /\ locks' = [locks EXCEPT ![key].holder = 0]
           /\ IF loaded.raised
              THEN /\ caller_pc' = [caller_pc EXCEPT ![c] = "raised"]
                   /\ UNCHANGED << tool_cache, caller_todo, caller_resolved >>
              ELSE /\ tool_cache' = [tool_cache EXCEPT ![server] = Cached(loaded.tools)]
                   /\ Collected(c, server, loaded.tools)
    /\ UNCHANGED << graph_vars, sess_vars, call_vars,
                    caller_request, discovery_calls >>

\* ------------------------------------------------------------------------
\* The stage node resolving its provider groups through the registry
\* ------------------------------------------------------------------------
\* the get_stage_tools call made by the run's stage node; the other calls
\* are made by concurrent runs
StageCaller == 1

\* blueprint["tool_names"] of each stage
StageToolNames(key) ==
    CASE key = "target_agent" -> << "s1", "s2" >>
      [] key = "pathway_agent" -> << "s2" >>
      [] key = "chem_agent" -> << "u" >>
      [] OTHER -> << >>

\* module_tools: the requested names that are configured servers
ModuleTools(key) ==
    SelectSeq(StageToolNames(key), LAMBDA name : name \in RegistryServers)

\* the tools the stage agent is given: one per resolved (server, tool) pair
ResolvedTools(resolved) ==
    [i \in 1..Len(resolved) |->
        Tool(resolved[i][2], resolved[i][1] \o ":" \o resolved[i][2], 90)]

\* what the stage node finds: no stage_servers, no resolved tool, or tools
ResolvedEnv(key) ==
    IF ModuleTools(key) = << >> THEN NoServers
    ELSE WithTools(ResolvedTools(caller_resolved[StageCaller]))

\* the stage the run is about to execute
PendingStage == StageForAgent(IF next = "" THEN "TV" ELSE next)

\* the names of the tools a server can offer, the model decisions and the
\* tool behaviours the stage is run on
DiscoveredToolNames == { ServerTools(server)[1] : server \in RegistryServers }

DiscoveryScripts ==
    { << Finish(TRUE), Finish(TRUE), Finish(TRUE), Finish(TRUE) >>,
      << Call("tool_of_s2", "data"), Finish(FALSE), Finish(TRUE), Finish(TRUE) >> }

DiscoveryFallbackOutcomes == { [n \in DiscoveredToolNames |-> "data"] }

\* the requests of the concurrent runs
OtherRequests == { << "s1" >>, << "s2", "s1" >> }

\* resolved_tools = await self._mcp_adapter.get_stage_tools(stage_servers)
stage_get_tools ==
    /\ pc = "mcp_execution"
    /\ ModuleTools(PendingStage) # << >>
    /\ get_stage_tools(StageCaller, { ModuleTools(PendingStage) })

\* the stage node once its provider groups are resolved (or at once when the
\* stage has no configured server); an exception leaving get_stage_tools
\* ends the run
execute_mcp_node_discovered(scripts, outcomes) ==
    /\ pc = "mcp_execution"
    /\ IF ModuleTools(PendingStage) = << >>
       THEN execute_stage([k \in StageKeys |-> ResolvedEnv(k)], scripts, outcomes)
       ELSE \/ /\ caller_pc[StageCaller] = "done"
               /\ execute_stage([k \in StageKeys |-> ResolvedEnv(k)], scripts, outcomes)
            \/ /\ caller_pc[StageCaller] = "raised"
               /\ Ran("mcp_execution")
               /\ pc' = "FAILED"
               /\ classify_mcp_raw' = NoReply
               /\ UNCHANGED << reg_vars, sess_vars, call_vars,
                               stage_env, original_question, messages,
                               history, next, step_count, current_search_query,
                               final_answer, document_results, mcp_tool_results,
                               workflow_trace, classify_is_mcp, classify_llm_result,
                               classify_keyword_match, stage_visit_counts,
                               history_needs_summary, stage_run,
                               final_answer_writes, final_answer_readers >>

\* ------------------------------------------------------------------------
\* The streaming session's steps.  Each task runs without interruption from
\* one await that suspends it to the next; put on the unbounded queue never
\* suspends.
\* ------------------------------------------------------------------------
\* emit / queue.put of the given kinds, in order
Put(kinds, seq) ==
    /\ queue' = queue \o ItemsAfter(put_log, kinds, seq)
    /\ put_log' = put_log \o ItemsAfter(put_log, kinds, seq)

\* the runner's except Exception clause followed by its finally clause
RunnerFails ==
    /\ Put(OnException \o OnFinally, 0)
    /\ runner_pc' = "failed"

RunnerSuspended == runner_pc \in {"load", "save", "running", "persist"}

\* the producer task's first step: emit("token", "") and the history load
runner_starts ==
    /\ endpoint = "/chat/langgraph"
    /\ runner_pc = "not_started"
    /\ sse_pc # "not_started"
    /\ ~CancelDelivered(producer_cancel)
    /\ Put(<< "token" >>, 0)
    /\ runner_pc' = "load"
    /\ UNCHANGED << graph_vars, reg_vars, call_vars, endpoint, delivered, client_disconnected,
                    client_gone, sse_pc, pinger_pc, producer_cancel, pinger_cancel,
                    node_events, beats >>

\* a history store call returns or raises: the load, the save of the
\* question, the save of the answer
runner_store_returns(raises) ==
    /\ endpoint = "/chat/langgraph"
    /\ runner_pc \in {"load", "save", "persist"}
    /\ ~CancelDelivered(producer_cancel)
    /\ IF raises THEN RunnerFails
       ELSE IF runner_pc = "persist"
       THEN /\ Put(OnFinally, 0)
            /\ runner_pc' = "finished"
       ELSE /\ runner_pc' = (IF runner_pc = "load" THEN "save" ELSE "running")
            /\ UNCHANGED << queue, put_log >>
    /\ UNCHANGED << graph_vars, reg_vars, call_vars, endpoint, delivered, client_disconnected,
                    client_gone, sse_pc, pinger_pc, producer_cancel, pinger_cancel,
                    node_events, beats >>

\* a node emits an event: agent_emit drops it once the flag is set, and
\* _emit swallows the exception of a payload json.dumps cannot encode
agent_emit(kinds, encodings) ==
    /\ endpoint = "/chat/langgraph"
    /\ runner_pc = "running"
    /\ ~CancelDelivered(producer_cancel)
    /\ node_events < MaxEvents
    /\ node_events' = node_events + 1
    /\ \E kind \in kinds, encodable \in encodings :
         IF client_disconnected \/ ~encodable
         THEN UNCHANGED << queue, put_log >>
         ELSE Put(<< kind >>, node_events + 1)
    /\ UNCHANGED << graph_vars, reg_vars, call_vars, endpoint, delivered, client_disconnected,
                    client_gone, sse_pc, runner_pc, pinger_pc, producer_cancel,
                    pinger_cancel, beats >>

\* agent.run returns: the ui payload goes through agent_emit (an
\* unencodable one raises here), then document_references and metadata
agent_returns(payloads) ==
    /\ endpoint = "/chat/langgraph"
    /\ runner_pc = "running"
    /\ ~CancelDelivered(producer_cancel)
    /\ \E ui \in payloads :
         IF ui = "unencodable" /\ ~client_disconnected
         THEN RunnerFails
         ELSE /\ Put((IF ui = "encodable" /\ ~client_disconnected
                      THEN << "ui_payload" >> ELSE << >>)
                       \o << "document_references", "metadata" >>, 0)
              /\ runner_pc' = "persist"
    /\ UNCHANGED << graph_vars, reg_vars, call_vars, endpoint, delivered, client_disconnected,
                    client_gone, sse_pc, pinger_pc, producer_cancel, pinger_cancel,
                    node_events, beats >>

\* agent.run raises
agent_raises ==
    /\ endpoint = "/chat/langgraph"
    /\ runner_pc = "running"
    /\ ~CancelDelivered(producer_cancel)
    /\ RunnerFails
    /\ UNCHANGED << graph_vars, reg_vars, call_vars, endpoint, delivered, client_disconnected,
                    client_gone, sse_pc, pinger_pc, producer_cancel, pinger_cancel,
                    node_events, beats >>

\* CancelledError reaches the runner: re-raised, the finally clause runs; a
\* task cancelled before its first step runs nothing
runner_cancelled ==
    /\ CancelDelivered(producer_cancel)
    /\ \/ /\ RunnerSuspended
          /\ endpoint = "/chat/langgraph"
          /\ Put(OnFinally, 0)
       \/ /\ runner_pc = "not_started"
          /\ UNCHANGED << queue, put_log >>
    /\ runner_pc' = "cancelled"
    /\ UNCHANGED << graph_vars, reg_vars, call_vars, endpoint, delivered, client_disconnected,
                    client_gone, sse_pc, pinger_pc, producer_cancel, pinger_cancel,
                    node_events, beats >>

\* chat_stream.runner: its first step, up to the first call of the store
chat_stream_starts ==
    /\ endpoint = "/chat/stream"
    /\ runner_pc = "not_started"
    /\ sse_pc # "not_started"
    /\ ~CancelDelivered(producer_cancel)
    /\ runner_pc' = "running"
    /\ UNCHANGED << graph_vars, reg_vars, call_vars, endpoint, queue, put_log,
                    delivered, client_disconnected, client_gone, sse_pc, pinger_pc,
                    producer_cancel, pinger_cancel, node_events, beats >>

\* chat_stream.runner emits an event of the model's stream: emit puts it,
\* flag or no flag
chat_stream_emits ==
    /\ endpoint = "/chat/stream"
    /\ runner_pc = "running"
    /\ ~CancelDelivered(producer_cancel)
    /\ node_events < MaxEvents
    /\ node_events' = node_events + 1
    /\ Put(<< "token" >>, node_events + 1)
    /\ UNCHANGED << graph_vars, reg_vars, call_vars, endpoint, delivered,
                    client_disconnected, client_gone, sse_pc, runner_pc, pinger_pc,
                    producer_cancel, pinger_cancel, beats >>

\* chat_stream.runner leaves its try block: the loop ended, an exception
\* was caught (error and apology are put), or CancelledError came.  The
\* finally clause then saves the messages when there are any, suspended
\* in the store, or goes straight to the result event and the sentinel.
chat_stream_leaves(raises, saves) ==
    /\ endpoint = "/chat/stream"
    /\ runner_pc = "running"
    /\ LET how == IF CancelDelivered(producer_cancel) THEN "cancelled"
                  ELSE IF raises THEN "failed" ELSE "finished"
           caught == IF how = "failed" THEN RunnerOnException(endpoint) ELSE << >>
       IN  IF saves
           THEN /\ Put(caught, 0)
                /\ runner_pc' = (IF how = "cancelled" THEN "closing_cancelled"
                                 ELSE IF how = "failed" THEN "closing_failed"
                                 ELSE "closing_finished")
           ELSE /\ Put(caught \o RunnerFinally(endpoint), 0)
                /\ runner_pc' = how
    /\ UNCHANGED << graph_vars, reg_vars, call_vars, endpoint, delivered,
                    client_disconnected, client_gone, sse_pc, pinger_pc,
                    producer_cancel, pinger_cancel, node_events, beats >>

\* store.save_messages returns, or raises into the inner except clause:
\* the result event and the sentinel are put
chat_stream_save_returns ==
    /\ endpoint = "/chat/stream"
    /\ \/ runner_pc = "closing_cancelled"
       \/ /\ runner_pc \in {"closing_finished", "closing_failed"}
          /\ ~CancelDelivered(producer_cancel)
    /\ Put(RunnerFinally(endpoint), 0)
    /\ runner_pc' = (CASE runner_pc = "closing_cancelled" -> "cancelled"
                       [] runner_pc = "closing_failed" -> "failed"
                       [] OTHER -> "finished")
    /\ UNCHANGED << graph_vars, reg_vars, call_vars, endpoint, delivered,
                    client_disconnected, client_gone, sse_pc, pinger_pc,
                    producer_cancel, pinger_cancel, node_events, beats >>

\* CancelledError reaches the runner while the finally clause waits for
\* store.save_messages: except Exception does not catch it, and the rest
\* of the finally clause is not run
chat_stream_save_cancelled ==
    /\ endpoint = "/chat/stream"
    /\ runner_pc \in {"closing_finished", "closing_failed"}
    /\ CancelDelivered(producer_cancel)
    /\ runner_pc' = "cancelled"
    /\ UNCHANGED << graph_vars, reg_vars, call_vars, endpoint, queue, put_log,
                    delivered, client_disconnected, client_gone, sse_pc, pinger_pc,
                    producer_cancel, pinger_cancel, node_events, beats >>

\* emit of orchestration_stream: nothing is put once the flag is set
EmitUnlessDisconnected(kinds) == IF client_disconnected THEN << >> ELSE kinds

\* orchestration_stream.runner: its first step, up to agent.run
orchestration_starts ==
    /\ endpoint = "/orchestration/stream"
    /\ runner_pc = "not_started"
    /\ sse_pc # "not_started"
    /\ ~CancelDelivered(producer_cancel)
    /\ runner_pc' = "running"
    /\ UNCHANGED << graph_vars, reg_vars, call_vars, endpoint, queue, put_log,
                    delivered, client_disconnected, client_gone, sse_pc, pinger_pc,
                    producer_cancel, pinger_cancel, node_events, beats >>

\* forward_event: an event of the agent goes through emit
orchestration_forward_event ==
    /\ endpoint = "/orchestration/stream"
    /\ runner_pc = "running"
    /\ ~CancelDelivered(producer_cancel)
    /\ node_events < MaxEvents
    /\ node_events' = node_events + 1
    /\ Put(EmitUnlessDisconnected(<< "token" >>), node_events + 1)
    /\ UNCHANGED << graph_vars, reg_vars, call_vars, endpoint, delivered,
                    client_disconnected, client_gone, sse_pc, runner_pc, pinger_pc,
                    producer_cancel, pinger_cancel, beats >>

\* agent.run returns (metadata when there is usage or cost, then result),
\* raises (error), or is cancelled; the finally clause puts the sentinel
orchestration_leaves(raises, with_usage) ==
    /\ endpoint = "/orchestration/stream"
    /\ runner_pc = "running"
    /\ LET how == IF CancelDelivered(producer_cancel) THEN "cancelled"
                  ELSE IF raises THEN "failed" ELSE "finished"
           emitted == CASE how = "cancelled" -> << >>
                        [] how = "failed" -> RunnerOnException(endpoint)
                        [] OTHER -> (IF with_usage THEN << "metadata" >> ELSE << >>)
                                      \o << "result" >>
       IN  /\ Put(EmitUnlessDisconnected(emitted) \o RunnerFinally(endpoint), 0)
           /\ runner_pc' = how
    /\ UNCHANGED << graph_vars, reg_vars, call_vars, endpoint, delivered,
                    client_disconnected, client_gone, sse_pc, pinger_pc,
                    producer_cancel, pinger_cancel, node_events, beats >>

\* heartbeat's first step: the flag test, then sleep
pinger_starts ==
    /\ pinger_pc = "not_started"
    /\ sse_pc # "not_started"
    /\ ~pinger_cancel
    /\ pinger_pc' = (IF client_disconnected THEN "done" ELSE "sleeping")
    /\ UNCHANGED << graph_vars, reg_vars, call_vars, endpoint, queue, put_log, delivered,
                    client_disconnected, client_gone, sse_pc, runner_pc,
                    producer_cancel, pinger_cancel, node_events, beats >>

\* the sleep ends: a keep-alive chunk is put, then the flag test.  The
\* number of chunks is capped, except that a reader waiting on the empty
\* queue of a client that has gone still gets its chunk.
pinger_wakes ==
    /\ pinger_pc = "sleeping"
    /\ ~pinger_cancel
    /\ \/ beats < MaxBeats
       \/ sse_pc = "get" /\ queue = << >> /\ client_gone
    /\ Put(HeartbeatChunk, 0)
    /\ beats' = (IF beats <= MaxBeats THEN beats + 1 ELSE beats)
    /\ pinger_pc' = (IF client_disconnected THEN "done" ELSE "sleeping")
    /\ UNCHANGED << graph_vars, reg_vars, call_vars, endpoint, delivered, client_disconnected,
                    client_gone, sse_pc, runner_pc, producer_cancel, pinger_cancel,
                    node_events >>

\* CancelledError reaches heartbeat
pinger_cancelled ==
    /\ pinger_cancel
    /\ pinger_pc \in {"not_started", "sleeping"}
    /\ pinger_pc' = "cancelled"
    /\ UNCHANGED << graph_vars, reg_vars, call_vars, endpoint, queue, put_log, delivered,
                    client_disconnected, client_gone, sse_pc, runner_pc,
                    producer_cancel, pinger_cancel, node_events, beats >>

\* sse leaves its loop: finally sets the flag and cancels both tasks
SseFinally ==
    /\ client_disconnected' = TRUE
    /\ producer_cancel' = TRUE
    /\ pinger_cancel' = TRUE
    /\ sse_pc' = "done"

\* chunk = await queue.get() has an item: the sentinel ends the loop, any
\* other chunk is yielded
SseTakes ==
    LET got == QueueGet(queue)
    IN  /\ queue' = got.rest
        /\ IF got.chunk.kind = SENTINEL
           THEN /\ SseFinally
                /\ UNCHANGED delivered
           ELSE /\ delivered' = Append(delivered, got.chunk)
                /\ sse_pc' = "yield"
                /\ UNCHANGED << client_disconnected, producer_cancel, pinger_cancel >>

\* the response starts iterating sse: both tasks are created
sse_starts ==
    /\ sse_pc = "not_started"
    /\ sse_pc' = "check"
    /\ UNCHANGED << graph_vars, reg_vars, call_vars, endpoint, queue, put_log, delivered,
                    client_disconnected, client_gone, runner_pc, pinger_pc,
                    producer_cancel, pinger_cancel, node_events, beats >>

\* request.is_disconnected() answers: leave the loop, or go on to
\* queue.get(), which returns at once when the queue holds an item
sse_checks ==
    /\ sse_pc = "check"
    /\ IF client_gone
       THEN /\ SseFinally
            /\ UNCHANGED << queue, delivered >>
       ELSE IF queue = << >>
       THEN /\ sse_pc' = "get"
            /\ UNCHANGED << queue, delivered, client_disconnected, producer_cancel,
                            pinger_cancel >>
       ELSE SseTakes
    /\ UNCHANGED << graph_vars, reg_vars, call_vars, endpoint, put_log, client_gone, runner_pc,
                    pinger_pc, node_events, beats >>

\* queue.get() is woken by a put
sse_gets ==
    /\ sse_pc = "get"
    /\ queue # << >>
    /\ SseTakes
    /\ UNCHANGED << graph_vars, reg_vars, call_vars, endpoint, put_log, client_gone, runner_pc,
                    pinger_pc, node_events, beats >>

\* the response asks for the next chunk
sse_resumes ==
    /\ sse_pc = "yield"
    /\ sse_pc' = "check"
    /\ UNCHANGED << graph_vars, reg_vars, call_vars, endpoint, queue, put_log, delivered,
                    client_disconnected, client_gone, runner_pc, pinger_pc,
                    producer_cancel, pinger_cancel, node_events, beats >>

\* the response is torn down after the client has gone: sse is cancelled or
\* closed where it is suspended, and its finally clause runs
sse_closed ==
    /\ client_gone
    /\ sse_pc \in {"check", "get", "yield"}
    /\ SseFinally
    /\ UNCHANGED << graph_vars, reg_vars, call_vars, endpoint, queue, put_log, delivered,
                    client_gone, runner_pc, pinger_pc, node_events, beats >>

\* the client goes away
client_disconnects ==
    /\ ~client_gone
    /\ sse_pc # "done"
    /\ client_gone' = TRUE
    /\ UNCHANGED << graph_vars, reg_vars, call_vars, endpoint, queue, put_log, delivered,
                    client_disconnected, sse_pc, runner_pc, pinger_pc,
                    producer_cancel, pinger_cancel, node_events, beats >>

\* ------------------------------------------------------------------------
\* Tool lookup and web search calls
\* ------------------------------------------------------------------------
\* get_mcp_tool(tool_name) with the registry the process was started with
get_mcp_tool(registries, names) ==
    /\ ~tool_lookup.called
    /\ \E registry \in registries, tool_name \in names :
         LET got == GetMcpTool(registry, tool_name)
         IN  tool_lookup' = [called |-> TRUE, registry |-> registry,
                             tool_name |-> tool_name, raised |-> got.raised,
                             canonical |-> got.name]
    /\ UNCHANGED << graph_vars, reg_vars, sess_vars, web_search_call, run_vars, fn_vars >>

\* web_search(states, **tool_input): the input validates or not, an MCP
\* search tool is configured or not, and its call raises or returns raw.
\* What is left unread (the response when no call returns one) is fixed.
web_search(responses) ==
    /\ ~web_search_call.called
    /\ \E valid \in BOOLEAN, configured \in BOOLEAN, raises \in BOOLEAN,
          raw \in responses :
         /\ (~valid \/ ~configured \/ raises) => raw = NoSearch.raw
         /\ (~valid \/ ~configured) => ~raises
         /\ LET done == WebSearch(valid, configured, raises, raw)
            IN  web_search_call' =
                  [called |-> TRUE, valid |-> valid, configured |-> configured,
                   raises |-> raises, raw |-> raw,
                   converted |-> ConvertMcpResults(raw),
                   source |-> done.source, results |-> done.results]
    /\ UNCHANGED << graph_vars, reg_vars, sess_vars, tool_lookup, run_vars, fn_vars >>

\* ------------------------------------------------------------------------
\* Runs of one process
\* ------------------------------------------------------------------------
\* runner: agent = LangGraphSearchAgent(), whose __init__ builds the
\* agent's MCPAdapterClient
run_builds_agent(r) ==
    /\ run_pc[r] = "idle"
    /\ adapters' = NewAdapter(adapters)
    /\ run_adapter' = [run_adapter EXCEPT ![r] = Len(adapters')]
    /\ run_pc' = [run_pc EXCEPT ![r] = "ready"]
    /\ UNCHANGED << graph_vars, reg_vars, sess_vars, tool_lookup, web_search_call, fn_vars,
                    run_server, run_tools, run_stages, load_calls >>

\* a stage node of the run calls get_stage_tools for the stage's server:
\* the client's cache answers, or load_mcp_tools is called
run_resolves(r) ==
    /\ run_pc[r] = "ready"
    /\ run_stages[r] < MaxRunStages
    /\ \E server \in RegistryServers :
         IF CacheHit(adapters[run_adapter[r]], server)
         THEN /\ run_tools' = [run_tools EXCEPT
                                 ![r] = adapters[run_adapter[r]][server].tools]
              /\ run_stages' = [run_stages EXCEPT ![r] = @ + 1]
              /\ run_server' = [run_server EXCEPT ![r] = server]
              /\ UNCHANGED << run_pc, load_calls >>
         ELSE /\ run_pc' = [run_pc EXCEPT ![r] = "discover"]
              /\ run_server' = [run_server EXCEPT ![r] = server]
              /\ load_calls' = [load_calls EXCEPT ![server] = @ + 1]
              /\ UNCHANGED << run_tools, run_stages >>
    /\ UNCHANGED << graph_vars, reg_vars, sess_vars, tool_lookup, web_search_call, fn_vars,
                    adapters, run_adapter >>

\* load_mcp_tools returns or raises: the list is stored in the cache of
\* the run's client and handed to the stage
run_discovery_returns(r, raises) ==
    /\ run_pc[r] = "discover"
    /\ LET loaded == DiscoveryOutcome(run_server[r], raises)
       IN  /\ adapters' = [adapters EXCEPT
                             ![run_adapter[r]][run_server[r]] = Cached(loaded.tools)]
           /\ run_tools' = [run_tools EXCEPT ![r] = loaded.tools]
    /\ run_stages' = [run_stages EXCEPT ![r] = @ + 1]
    /\ run_pc' = [run_pc EXCEPT ![r] = "ready"]
    /\ UNCHANGED << graph_vars, reg_vars, sess_vars, tool_lookup, web_search_call, fn_vars,
                    run_adapter, run_server, load_calls >>

\* agent.run returns
run_ends(r) ==
    /\ run_pc[r] = "ready"
    /\ run_pc' = [run_pc EXCEPT ![r] = "ended"]
    /\ UNCHANGED << graph_vars, reg_vars, sess_vars, tool_lookup, web_search_call, fn_vars,
                    adapters, run_adapter, run_server, run_tools, run_stages,
                    load_calls >>

\* ------------------------------------------------------------------------
\* Calls of the meaningfulness filter
\* ------------------------------------------------------------------------
\* _is_meaningful_result(result), and once more on the same result
is_meaningful_result(results) ==
    /\ ~filter_call.called
    /\ \E result \in results :
         filter_call' = [called |-> TRUE, result |-> result,
                         answer |-> IsMeaningfulResult(result),
                         again |-> IsMeaningfulResult(result)]
    /\ UNCHANGED << graph_vars, reg_vars, sess_vars, tool_lookup, web_search_call,
                    run_vars, chat_vars >>

\* ------------------------------------------------------------------------
\* MCPChatAgent.run, step by step
\* ------------------------------------------------------------------------
\* run(message): an empty message is refused; otherwise the messages are
\* set up, the tools fetched and the loop entered
chat_run(user_messages) ==
    /\ chat_pc = "idle"
    /\ \E user_message \in user_messages :
         IF Strip(user_message) = << >>
         THEN /\ chat_pc' = "raised"
              /\ chat_error' = "message must not be empty"
              /\ UNCHANGED << chat_turn, chat_messages >>
         ELSE /\ chat_pc' = LoopStep(0).pc
              /\ chat_turn' = LoopStep(0).turn
              /\ chat_error' = LoopStep(0).error
              /\ chat_messages' = << "system", "human" >>
    /\ UNCHANGED << graph_vars, reg_vars, sess_vars, tool_lookup, web_search_call,
                    run_vars, filter_call, chat_llm_calls, chat_answer_calls,
                    chat_tool_rounds, chat_fed_back, chat_pending, chat_outputs,
                    chat_answer >>

\* final_payload = await self._invoke_llm(states): the call with the tools
\* bound, on the messages so far; its reply is nothing, an exception, or a
\* message with some tool calls or none
chat_invoke_llm(replies) ==
    /\ chat_pc = "llm"
    /\ chat_llm_calls' = chat_llm_calls + 1
    /\ chat_fed_back' = (chat_fed_back \/ \E i \in 1..Len(chat_messages) : chat_messages[i] = "tool")
    /\ \E reply \in replies :
         CASE reply.kind = "none" ->
                /\ chat_pc' = "raised"
                /\ chat_error' = "LLM returned no response"
                /\ UNCHANGED << chat_messages, chat_pending, chat_tool_rounds,
                                chat_answer >>
           [] reply.kind = "raises" ->
                /\ chat_pc' = "raised"
                /\ chat_error' = "llm call failed"
                /\ UNCHANGED << chat_messages, chat_pending, chat_tool_rounds,
                                chat_answer >>
           [] reply.kind = "message" /\ reply.tool_calls > 0 ->
                /\ chat_pc' = "tools"
                /\ chat_messages' = Append(chat_messages, "assistant")
                /\ chat_pending' = reply.tool_calls
                /\ chat_tool_rounds' = chat_tool_rounds + 1
                /\ UNCHANGED << chat_error, chat_answer >>
           [] OTHER ->
                /\ chat_pc' = "returned"
                /\ chat_messages' = Append(chat_messages, "assistant")
                /\ chat_answer' = "content"
                /\ UNCHANGED << chat_error, chat_pending, chat_tool_rounds >>
    /\ UNCHANGED << graph_vars, reg_vars, sess_vars, tool_lookup, web_search_call,
                    run_vars, filter_call, chat_turn, chat_answer_calls,
                    chat_outputs >>

\* _handle_tool_calls, one tool call of the reply: whatever becomes of it,
\* one tool_outputs entry and one ToolMessage are appended; after the last
\* call run goes on
chat_handle_tool_call(outcomes) ==
    /\ chat_pc = "tools"
    /\ chat_pending > 0
    /\ \E outcome \in outcomes :
         chat_outputs' = Append(chat_outputs, ToolOutputEntry(outcome))
    /\ chat_messages' = Append(chat_messages, "tool")
    /\ chat_pending' = chat_pending - 1
    /\ IF chat_pending = 1
       THEN /\ chat_pc' = AfterToolCalls(chat_turn).pc
            /\ chat_turn' = AfterToolCalls(chat_turn).turn
            /\ chat_error' = AfterToolCalls(chat_turn).error
       ELSE UNCHANGED << chat_pc, chat_turn, chat_error >>
    /\ UNCHANGED << graph_vars, reg_vars, sess_vars, tool_lookup, web_search_call,
                    run_vars, filter_call, chat_llm_calls, chat_answer_calls,
                    chat_tool_rounds, chat_fed_back, chat_answer >>

\* answer = await self._simple_llm_call(...): a call with tools=None on a
\* prompt built from the question and the tool outputs; run returns its
\* text, or "Failed to generate answer." when no message came
chat_simple_llm_call(replies) ==
    /\ chat_pc = "answer"
    /\ chat_answer_calls' = chat_answer_calls + 1
    /\ \E reply \in replies :
         CASE reply = "raises" ->
                /\ chat_pc' = "raised"
                /\ chat_error' = "llm call failed"
                /\ UNCHANGED chat_answer
           [] reply = "none" ->
                /\ chat_pc' = "returned"
                /\ chat_answer' = "failed"
                /\ UNCHANGED chat_error
           [] OTHER ->
                /\ chat_pc' = "returned"
                /\ chat_answer' = "answer"
                /\ UNCHANGED chat_error
    /\ UNCHANGED << graph_vars, reg_vars, sess_vars, tool_lookup, web_search_call,
                    run_vars, filter_call, chat_turn, chat_llm_calls,
                    chat_tool_rounds, chat_fed_back, chat_messages, chat_pending,
                    chat_outputs >>

\* ------------------------------------------------------------------------
\* Specifications
\* ------------------------------------------------------------------------
Next ==
    \/ router_node
    \/ classify_node(GraphClassifyReplies)
    \/ classify_mcp_node(GraphRoutingReplies)
    \/ execute_mcp_node(GraphScripts, GraphFallbackOutcomes)
    \/ history_length_check_node
    \/ summary_node({0, SummaryLen})
    \/ increment_step_node
    \/ search_query_node
    \/ vector_search_node
    \/ direct_answer_node
    \/ final_answer_node

Spec == Init /\ [][Next]_vars

\* The classifier on its own: every question and every reply within the
\* bounds, through router and classify up to the branch taken.
InitClassify == InitWith(Questions, { << >> }, Deployments)

NextClassify ==
    \/ router_node
    \/ classify_node(ClassifyReplies)

SpecClassify == InitClassify /\ [][NextClassify]_vars

\* One stage execution on its own: a professional question is routed to a
\* stage, and the stage node runs on every script and tool behaviour.
InitStage == InitWith(GraphQuestions, { << >> }, Deployments)

NextStage ==
    \/ router_node
    \/ classify_node({ << "PRO" >> })
    \/ classify_mcp_node(StageRoutingReplies)
    \/ execute_mcp_node(StageScripts, StageFallbackOutcomes)

SpecStage == InitStage /\ [][NextStage]_vars

\* The registry on its own: concurrent get_stage_tools calls on one
\* MCPAdapterClient.
InitRegistry == InitWith(GraphQuestions, { << >> }, Deployments)

NextRegistry ==
    \E c \in Callers :
        \/ get_stage_tools(c, StageServerLists)
        \/ get_tools_for_server(c)
        \/ lock_acquired(c)
        \/ \E raises \in BOOLEAN : discovery_returns(c, raises)

SpecRegistry == InitRegistry /\ [][NextRegistry]_vars

\* One stage execution whose tools come from the registry, next to the
\* get_stage_tools calls of concurrent runs.
InitDiscovery == InitWith(GraphQuestions, { << >> }, Deployments)

NextDiscovery ==
    \/ router_node
    \/ classify_node({ << "PRO" >> })
    \/ classify_mcp_node(StageRoutingReplies)
    \/ stage_get_tools
    \/ execute_mcp_node_discovered(DiscoveryScripts, DiscoveryFallbackOutcomes)
    \/ \E c \in Callers \ {StageCaller} : get_stage_tools(c, OtherRequests)
    \/ \E c \in Callers : get_tools_for_server(c)
    \/ \E c \in Callers : lock_acquired(c)
    \/ \E c \in Callers : \E raises \in BOOLEAN : discovery_returns(c, raises)

SpecDiscovery == InitDiscovery /\ [][NextDiscovery]_vars

\* Tool lookups on every registry and name within the bounds.
InitLookup == InitWith(GraphQuestions, { << >> }, Deployments)

NextLookup == get_mcp_tool(ToolRegistries, LookupNames)

SpecLookup == InitLookup /\ [][NextLookup]_vars

\* web_search on every response within the bounds.
InitSearch == InitWith(GraphQuestions, { << >> }, Deployments)

NextSearch == web_search(McpResponses)

SpecSearch == InitSearch /\ [][NextSearch]_vars

\* The filter on every result within the bounds.
InitFilter == InitWith(GraphQuestions, { << >> }, Deployments)

NextFilter == is_meaningful_result(ToolResults)

SpecFilter == InitFilter /\ [][NextFilter]_vars

\* One run of the chat agent on every message and every course of replies.
ChatMessages == { << >>, << " " >>, << "q" >> }

ChatReplies ==
    { [kind |-> "none", tool_calls |-> 0], [kind |-> "raises", tool_calls |-> 0] }
    \cup { [kind |-> "message", tool_calls |-> n] : n \in 0..MaxToolCalls }

InitChat == InitWith(GraphQuestions, { << >> }, Deployments)

NextChat ==
    \/ chat_run(ChatMessages)
    \/ chat_invoke_llm(ChatReplies)
    \/ chat_handle_tool_call(ToolCallOutcomes)
    \/ chat_simple_llm_call({"none", "raises", "message"})

SpecChat == InitChat /\ [][NextChat]_vars

\* The runs of the requests one process serves, side by side.
InitRuns == InitWith(GraphQuestions, { << >> }, Deployments)

NextRuns ==
    \E r \in Runs :
        \/ run_builds_agent(r)
        \/ run_resolves(r)
        \/ \E raises \in BOOLEAN : run_discovery_returns(r, raises)
        \/ run_ends(r)

SpecRuns == InitRuns /\ [][NextRuns]_vars

\* One streaming session.
InitSession == InitWith(GraphQuestions, { << >> }, Deployments)

UiPayloads == {"none", "encodable", "unencodable"}

RunnerNext(kinds, encodings, payloads) ==
    \/ runner_starts
    \/ \E raises \in BOOLEAN : runner_store_returns(raises)
    \/ agent_emit(kinds, encodings)
    \/ agent_returns(payloads)
    \/ agent_raises
    \/ runner_cancelled

PingerNext ==
    \/ pinger_starts
    \/ pinger_wakes
    \/ pinger_cancelled

SseNext ==
    \/ sse_starts
    \/ sse_checks
    \/ sse_gets
    \/ sse_resumes

NextSession ==
    \/ RunnerNext(AgentEventKinds, BOOLEAN, UiPayloads)
    \/ PingerNext
    \/ SseNext
    \/ sse_closed
    \/ client_disconnects

SpecSession == InitSession /\ [][NextSession]_vars

\* One streaming session of each of the three handlers, which share sse
\* and heartbeat and differ in their runner.
InitRunners ==
    /\ GraphInit(GraphQuestions, { << >> }, Deployments)
    /\ RegistryInit
    /\ SessionInitAt(StreamingEndpoints)
    /\ CallsInit

ChatStreamRunnerNext ==
    \/ chat_stream_starts
    \/ chat_stream_emits
    \/ \E raises \in BOOLEAN, saves \in BOOLEAN : chat_stream_leaves(raises, saves)
    \/ chat_stream_save_returns
    \/ chat_stream_save_cancelled

OrchestrationRunnerNext ==
    \/ orchestration_starts
    \/ orchestration_forward_event
    \/ \E raises \in BOOLEAN, with_usage \in BOOLEAN :
          orchestration_leaves(raises, with_usage)

NextRunners ==
    \/ RunnerNext({"token"}, {TRUE}, {"none", "encodable"})
    \/ ChatStreamRunnerNext
    \/ OrchestrationRunnerNext
    \/ PingerNext
    \/ SseNext
    \/ sse_closed
    \/ client_disconnects

SpecRunners == InitRunners /\ [][NextRunners]_vars

\* The consumer loop left to itself: no teardown of the response from
\* outside, the event loop running sse and heartbeat whenever they can
\* run, and a runner whose awaited calls may never return.
NextConsumerLoop ==
    \/ RunnerNext({"token"}, {TRUE}, {"none", "encodable"})
    \/ ChatStreamRunnerNext
    \/ OrchestrationRunnerNext
    \/ PingerNext
    \/ SseNext
    \/ client_disconnects

SpecConsumerLoop ==
    /\ InitRunners
    /\ [][NextConsumerLoop]_vars
    /\ WF_vars(SseNext)
    /\ WF_vars(PingerNext)

\* The session with the event loop running every task that can run, on
\* runs that emit encodable token events; the calls the runner awaits may
\* never return.
NextSessionFair ==
    \/ RunnerNext({"token"}, {TRUE}, {"none", "encodable"})
    \/ PingerNext
    \/ SseNext
    \/ sse_closed
    \/ client_disconnects

SpecSessionFair ==
    /\ InitSession
    /\ [][NextSessionFair]_vars
    /\ WF_vars(SseNext)
    /\ WF_vars(PingerNext)
    /\ WF_vars(runner_cancelled)

\* ------------------------------------------------------------------------
\* Properties
\* ------------------------------------------------------------------------
NodeNames ==
    {"router", "classify", "classify_mcp", "direct_answer", "mcp_execution",
     "history_length_check", "summary", "increment_step", "search_query",
     "vector_search", "final_answer"}

TerminalNodes == {"direct_answer", "final_answer"}

LastExecuted == IF executed = << >> THEN "" ELSE executed[Len(executed)]

\* the first routable stage without a visit, in the order TV, CD, SA, PI
FirstUnvisited ==
    IF stage_visit_counts["target_agent"] = 0 THEN "TV"
    ELSE IF stage_visit_counts["chem_agent"] = 0 THEN "CD"
    ELSE IF stage_visit_counts["structure_agent"] = 0 THEN "SA"
    ELSE IF stage_visit_counts["pathway_agent"] = 0 THEN "PI"
    ELSE NULL

AllRoutableVisited == \A k \in RoutableStages : stage_visit_counts[k] >= 1

\* the stage the code in state["next"] stands for
ChosenStage == StageForAgent(next)

\* the routing reply names a valid agent code
ReplyCode ==
    IF classify_mcp_raw.kind = "object" /\ classify_mcp_raw.next \in NextTexts
    THEN StripUpper(classify_mcp_raw.next) ELSE ""

\* C1: every run reaches a terminal node (direct_answer or final_answer)
\* after finitely many node executions, whatever the LLM answers to the
\* routing prompts: a run never stops anywhere else, and it executes at
\* most 2 + 5 * 4 + 4 nodes.
C1_RunReachesTerminalNode ==
    /\ Len(executed) <= 26
    /\ pc \notin NodeNames => (pc = "END" /\ LastExecuted \in TerminalNodes)

\* C2: in every reachable state each stage's visit count is at most 1.
C2_StageVisitedAtMostOnce ==
    \A k \in StageKeys : stage_visit_counts[k] <= 1

\* C2 witness: the LLM named a stage that was already visited, and a stage
\* is about to be executed.
C2_Witness ==
    /\ pc = "mcp_execution"
    /\ ReplyCode \in AgentCodes
    /\ stage_visit_counts[MCP_AGENT_TO_STAGE(ReplyCode)] = 1

\* C3: step_count never decreases and never exceeds MAX_WORKFLOW_ITERATIONS;
\* once it has reached MAX_WORKFLOW_ITERATIONS, mcp_execution is not
\* entered again.
C3_StepCountBounded ==
    [][ /\ step_count' >= step_count
        /\ step_count' <= MAX_WORKFLOW_ITERATIONS
        /\ (step_count >= MAX_WORKFLOW_ITERATIONS => pc' # "mcp_execution") ]_vars

\* C3 witness: the counter has been incremented once per routable stage.
C3_Witness ==
    /\ step_count = 4
    /\ LastExecuted = "increment_step"

\* C4: when classify_mcp has chosen a stage while a routable stage is
\* unvisited, the chosen stage is unvisited; and when the reply did not
\* parse, named no valid code or named a visited stage, the choice is the
\* first unvisited stage in priority order.
C4_ChoosesUnvisitedStage ==
    pc = "mcp_execution" =>
        /\ (~AllRoutableVisited => stage_visit_counts[ChosenStage] = 0)
        /\ ( \/ classify_mcp_raw.kind = "not_json"
             \/ ReplyCode \notin MCP_AGENT_CHOICES
             \/ (ReplyCode \in AgentCodes
                 /\ stage_visit_counts[MCP_AGENT_TO_STAGE(ReplyCode)] >= 1) )
           => next = FirstUnvisited

\* C4 witness: the reply named a visited stage that is not first in
\* priority, and the first unvisited stage was chosen instead.
C4_Witness ==
    /\ pc = "mcp_execution"
    /\ ReplyCode = "PI"
    /\ stage_visit_counts["pathway_agent"] = 1
    /\ next = "CD"

C6_AllStagesBeforeRetrieval ==
    pc \in {"search_query", "vector_search", "final_answer"} =>
        \A k \in StageKeys : stage_visit_counts[k] >= 1

\* the edges of the graph
GraphEdges ==
    { << "router", "classify" >>,
      << "classify", "direct_answer" >>, << "classify", "classify_mcp" >>,
      << "classify_mcp", "search_query" >>, << "classify_mcp", "mcp_execution" >>,
      << "mcp_execution", "history_length_check" >>,
      << "history_length_check", "summary" >>,
      << "history_length_check", "increment_step" >>,
      << "summary", "increment_step" >>,
      << "increment_step", "search_query" >>, << "increment_step", "classify_mcp" >>,
      << "search_query", "vector_search" >>, << "vector_search", "final_answer" >> }

\* C7: the executed nodes start at router, follow only the edges above, and
\* nothing executes after direct_answer or final_answer.
C7_OnlyGraphEdges ==
    /\ executed # << >> => executed[1] = "router"
    /\ \A i \in 1..(Len(executed) - 1) :
          /\ << executed[i], executed[i + 1] >> \in GraphEdges
          /\ executed[i] \notin TerminalNodes
    /\ (LastExecuted \in TerminalNodes => pc = "END")
    /\ (pc \in NodeNames /\ executed # << >> => << LastExecuted, pc >> \in GraphEdges)

\* C7 witness: a finished run that went through the summary node.
C7_Witness ==
    /\ pc = "END"
    /\ LastExecuted = "final_answer"
    /\ \E i \in 1..Len(executed) : executed[i] = "summary"

\* C8: final_answer is null until a terminal node has run, it is assigned
\* exactly once in a run that reaches a terminal node, and no node before
\* the terminal step reads it.
C8_FinalAnswerWrittenOnce ==
    /\ (LastExecuted \notin TerminalNodes =>
           final_answer = NULL /\ final_answer_writes = 0)
    /\ (LastExecuted \in TerminalNodes =>
           final_answer # NULL /\ final_answer_writes = 1)
    /\ final_answer_readers \subseteq TerminalNodes

\* C8 witness: the synthesis step has written the report from stage
\* results.
C8_Witness ==
    /\ pc = "END"
    /\ LastExecuted = "final_answer"
    /\ AnyResults(mcp_tool_results)
    /\ final_answer = "text"

\* some keyword occurs in the question letter for letter
LiterallyContained(question) ==
    \E i \in 1..Len(PROFESSIONAL_KEYWORDS) :
        Contains(question, PROFESSIONAL_KEYWORDS[i])

\* some keyword occurs in the question when letter case is ignored
ContainedIgnoringCase(question) ==
    \E i \in 1..Len(PROFESSIONAL_KEYWORDS) :
        Contains(Lower(question), Lower(PROFESSIONAL_KEYWORDS[i]))

Classified == Len(executed) >= 2

\* C9 (as claimed): classify routes to classify_mcp iff the verdict starts
\* with the professional word, the best partial-ratio score is >= 80, or a
\* keyword is literally contained in the question.
C9_PipelineIffVerdictFuzzyOrLiteral ==
    Classified =>
        ( pc = "classify_mcp" <=>
            \/ StartsWithPro(classify_llm_result)
            \/ ExpertSimScore(original_question) >= 80
            \/ LiterallyContained(original_question) )

\* C9 (amended): classify routes to classify_mcp iff the cleaned verdict
\* starts with the professional word, the best partial-ratio score is
\* >= 80, or a keyword is contained in the question when letter case is
\* ignored; otherwise it routes to direct_answer.
C9_PipelineIffVerdictFuzzyOrKeyword ==
    Classified =>
        /\ pc \in {"classify_mcp", "direct_answer"}
        /\ ( pc = "classify_mcp" <=>
               \/ (classify_llm_result # << >> /\ classify_llm_result[1] = "PRO")
               \/ ExpertSimScore(original_question) >= 80
               \/ ContainedIgnoringCase(original_question) )

\* C9 witness: the model answered "general", no keyword is literally in the
\* question and the fuzzy score is below 80, yet the keyword check (which
\* ignores case) sent the question to the pipeline.
C9_Witness ==
    /\ pc = "classify_mcp"
    /\ classify_llm_result = << "GEN" >>
    /\ ExpertSimScore(original_question) < 80
    /\ ~LiterallyContained(original_question)

\* C10: after the classifier decided "general" the run is router, classify,
\* direct_answer and ends; no stage is executed, the visit counts, the
\* stage results, the trace and step_count keep their initial values, and
\* direct_answer sets final_answer.
C10_GeneralGoesDirect ==
    (Classified /\ ~classify_is_mcp) =>
        /\ \/ (pc = "direct_answer" /\ executed = << "router", "classify" >>)
           \/ (pc = "END" /\ executed = << "router", "classify", "direct_answer" >>
                 /\ final_answer # NULL /\ final_answer_writes = 1)
        /\ stage_visit_counts = NoVisits
        /\ mcp_tool_results = EmptyMap
        /\ workflow_trace = << >>
        /\ step_count = 0

\* C10 witness: a general question answered directly.
C10_Witness ==
    /\ pc = "END"
    /\ ~classify_is_mcp
    /\ executed = << "router", "classify", "direct_answer" >>
    /\ final_answer = "text"

\* ------------------------------------------------------------------------
\* Properties of one stage execution
\* ------------------------------------------------------------------------
\* a stage node has just run
StageRan == stage_run.key # ""

RunTitle == StageTitle(stage_run.key)

\* what the stage stored under mcp_tool_results[title]
RunResults == mcp_tool_results[RunTitle]

\* the trace entry the stage appended
RunEntry == workflow_trace[Len(workflow_trace)]

RunTools == stage_run.env.tools

\* number of times label occurs in a list of labels
LabelCount(labels, label) ==
    Cardinality({ i \in 1..Len(labels) : labels[i] = label })

\* the decisions the Stage Agent got to see are calls up to position i
CallsUpTo(script, i) == \A j \in 1..i : script[j].action = "call_tool"

KnownCall(d) == d.action = "call_tool" /\ HasTool(RunTools, d.tool_name)

\* the Stage Agent recorded a tool use: one of the calls it executed
\* returned a meaningful result or raised
AgentRecordedToolUse ==
    \E i \in 1..Len(stage_run.script) :
        /\ CallsUpTo(stage_run.script, i)
        /\ KnownCall(stage_run.script[i])
        /\ stage_run.script[i].outcome # "empty"

BudgetNoteIn(notes) ==
    \E i \in 1..Len(notes) : notes[i].type = "error" /\ notes[i].output = "budget"

\* the resolved tool with the highest score
TopRanked(tools) ==
    tools[CHOOSE i \in 1..Len(tools) : \A j \in 1..Len(tools) : tools[i].score >= tools[j].score]

\* C11: the status recorded for a stage (by the Stage Agent, by the
\* Fallback Executor and in the stage's trace entry) is "completed" iff the
\* result mapping is non-empty, and "skipped" otherwise.
C11_CompletedIffResults ==
    StageRan =>
        /\ RunEntry.stage = RunTitle
        /\ RunEntry.status \in {"completed", "skipped"}
        /\ (RunEntry.status = "completed" <=> DOMAIN RunResults # {})
        /\ RunTools # << >> =>
             LET agent == RunStageAgent(RunTools, stage_run.script)
             IN  /\ agent.status \in {"completed", "skipped"}
                 /\ (agent.status = "completed" <=> DOMAIN agent.results # {})
        /\ stage_run.ran_fallback =>
             LET fb == RunFallbackTools(original_question, RunTools, stage_run.outcome)
             IN  /\ fb.status \in {"completed", "skipped"}
                 /\ (fb.status = "completed" <=> DOMAIN fb.results # {})

\* C11 witness: the agent recorded nothing and the Fallback Executor
\* completed the stage.
C11_Witness ==
    /\ StageRan
    /\ stage_run.ran_fallback
    /\ RunEntry.status = "completed"
    /\ DOMAIN RunResults # {}

\* C12: one Stage Agent run executes at most MAX_STAGE_AGENT_TOOLS tool
\* invocations, whatever the model requests and the tools return.
C12_AtMostThreeInvocations ==
    StageRan => stage_run.agent_invoked <= MAX_STAGE_AGENT_TOOLS

\* C13: when the first three tool calls of a stage return empty results and
\* the model requests a fourth call, the fourth call is not executed, the
\* loop ends with the tool-budget note, and the Fallback Executor invokes
\* the single highest-ranked tool.
C13_FourthCallRejectedAfterThreeEmpty ==
    ( /\ StageRan
      /\ RunTools # << >>
      /\ \A i \in 1..3 : KnownCall(stage_run.script[i])
                           /\ stage_run.script[i].outcome = "empty"
      /\ stage_run.script[4].action = "call_tool" )
    => /\ stage_run.agent_invoked = 3
       /\ BudgetNoteIn(RunEntry.notes)
       /\ stage_run.ran_fallback
       /\ stage_run.fallback_invoked = << TopRanked(RunTools).label >>

C15_SkippedOnlyAfterAnAttempt ==
    (StageRan /\ RunTools # << >> /\ RunEntry.status = "skipped") =>
        stage_run.agent_invoked + Len(stage_run.fallback_invoked) >= 1

\* the stage the router chose has no provider group or resolves to no tool
ChosenStageHasNoTools == stage_env[ChosenStage].tools = << >>

\* what C16 says of a stage without tools apart from stage_results: no
\* exception, one "skipped" entry appended, the stage counted as visited
SkippedStagePass ==
    /\ pc' = "history_length_check"
    /\ Len(workflow_trace') = Len(workflow_trace) + 1
    /\ SubSeq(workflow_trace', 1, Len(workflow_trace)) = workflow_trace
    /\ workflow_trace'[Len(workflow_trace')].stage = StageTitle(ChosenStage)
    /\ workflow_trace'[Len(workflow_trace')].status = "skipped"
    /\ stage_visit_counts'[ChosenStage] = stage_visit_counts[ChosenStage] + 1

\* the router's next choice of a stage is an unvisited one
RouterGoesOn ==
    (pc = "classify_mcp" /\ pc' = "mcp_execution") =>
        stage_visit_counts[StageForAgent(next')] = 0

\* C16 (as claimed): executing a stage without provider group or without
\* tools appends one "skipped" trace entry, leaves stage_results unchanged,
\* raises nothing, and the router goes on to the next unvisited stage.
C16_SkippedStageLeavesResultsUnchanged ==
    [][ /\ (pc = "mcp_execution" /\ ChosenStageHasNoTools) =>
              (SkippedStagePass /\ mcp_tool_results' = mcp_tool_results)
        /\ RouterGoesOn ]_vars

\* C16 (amended): executing a stage without provider group or without
\* tools appends one "skipped" trace entry, records no output (the stage's
\* entry in stage_results becomes an empty mapping and the other stages'
\* entries stay as they are), raises nothing, counts the stage as visited,
\* and the router goes on to the next unvisited stage.
C16_SkippedStageRecordsEmptyEntry ==
    [][ /\ (pc = "mcp_execution" /\ ChosenStageHasNoTools) =>
              /\ SkippedStagePass
              /\ DOMAIN mcp_tool_results' =
                    DOMAIN mcp_tool_results \cup { StageTitle(ChosenStage) }
              /\ mcp_tool_results'[StageTitle(ChosenStage)] = EmptyMap
              /\ \A t \in DOMAIN mcp_tool_results :
                    t # StageTitle(ChosenStage) =>
                        mcp_tool_results'[t] = mcp_tool_results[t]
        /\ RouterGoesOn ]_vars

\* C16 witness: after a stage without tools was skipped, the router has
\* chosen another stage.
C16_Witness ==
    /\ pc = "mcp_execution"
    /\ \E i \in 1..Len(workflow_trace) :
          /\ workflow_trace[i].stage = StageTitle("chem_agent")
          /\ workflow_trace[i].status = "skipped"
    /\ stage_visit_counts["chem_agent"] = 1
    /\ ChosenStage # "chem_agent"

\* C17: every value under stage_results[title][label] is a list with one
\* output per recorded invocation of the label: one element after the
\* first, one more after each repetition.
C17_ResultsAreLists ==
    StageRan =>
        \A label \in DOMAIN RunResults :
            /\ DOMAIN RunResults[label] = 1..Len(RunResults[label])
            /\ Len(RunResults[label]) >= 1
            /\ Len(RunResults[label]) = LabelCount(RunEntry.tools, label)

\* C17 witness: a label invoked twice by the agent holds two outputs, next
\* to a label invoked once.
C17_Witness ==
    /\ StageRan
    /\ \E l1, l2 \in DOMAIN RunResults :
          Len(RunResults[l1]) = 2 /\ Len(RunResults[l2]) = 1

IsPrefix(a, b) == Len(a) <= Len(b) /\ SubSeq(b, 1, Len(a)) = a

\* C18: recorded outputs are never removed or replaced: for every stage
\* title and tool label the list of outputs only grows.
C18_ResultsOnlyGrow ==
    [][ \A t \in DOMAIN mcp_tool_results :
          /\ t \in DOMAIN mcp_tool_results'
          /\ \A l \in DOMAIN mcp_tool_results[t] :
                /\ l \in DOMAIN mcp_tool_results'[t]
                /\ IsPrefix(mcp_tool_results[t][l], mcp_tool_results'[t][l]) ]_vars

\* C18 witness: a second stage has recorded outputs next to the first
\* stage's.
C18_Witness ==
    /\ StageRan
    /\ \E t1, t2 \in DOMAIN mcp_tool_results :
          /\ t1 # t2
          /\ DOMAIN mcp_tool_results[t1] # {}
          /\ DOMAIN mcp_tool_results[t2] # {}

Resolving(c) == Head(caller_todo[c])

\* the calls suspended in load_mcp_tools for a server
InFlight(server) ==
    { c \in Callers : caller_pc[c] = "discover" /\ Resolving(c) = server }

\* the call asked for the server and has its tools
HasResolved(c, server) ==
    /\ \E i \in 1..Len(caller_request[c]) : caller_request[c][i] = server
    /\ \A i \in 1..Len(caller_todo[c]) : caller_todo[c][i] # server
    /\ caller_pc[c] # "idle"

\* the (server, tool) pairs a call collected for one server
PairsOf(c, server) ==
    SelectSeq(caller_resolved[c], LAMBDA pair : pair[1] = server)

DiscoveryFailed(server) ==
    /\ server \in RegistryServers
    /\ tool_cache[server].cached
    /\ tool_cache[server].tools = << >>

\* every provider group of the stage failed to resolve
AllGroupsFailed(key) ==
    /\ ModuleTools(key) # << >>
    /\ \A i \in 1..Len(ModuleTools(key)) : DiscoveryFailed(ModuleTools(key)[i])

\* C21: when discovery for a provider group raises, no get_stage_tools call
\* raises and every call that resolved the group got no tool for it; a stage
\* all of whose groups failed is recorded as skipped with no result, and
\* the run goes on along the edge out of the stage node: it fails only in a
\* stage agent that was given tools.
C21_DiscoveryFailureSkipsStage ==
    /\ \A c \in Callers :
          /\ caller_pc[c] # "raised"
          /\ \A s \in RegistryServers :
                (DiscoveryFailed(s) /\ HasResolved(c, s)) => PairsOf(c, s) = << >>
    /\ (StageRan /\ AllGroupsFailed(stage_run.key)) =>
          /\ RunEntry.status = "skipped"
          /\ RunEntry.tools = << >>
          /\ RunResults = EmptyMap
          /\ stage_run.agent_invoked = 0
          /\ pc = "history_length_check"
    /\ pc = "FAILED" => caller_resolved[StageCaller] # << >>

\* a stage with two provider groups ran after discovery raised for both
C21_Witness ==
    /\ StageRan
    /\ AllGroupsFailed(stage_run.key)
    /\ Len(ModuleTools(stage_run.key)) = 2
    /\ discovery_calls["s1"] = 1
    /\ discovery_calls["s2"] = 1
    /\ pc = "history_length_check"

\* ------------------------------------------------------------------------
\* Streaming session
\* ------------------------------------------------------------------------
KindsOf(items) == [i \in 1..Len(items) |-> items[i].kind]

CountKind(items, kind) ==
    Cardinality({ i \in 1..Len(items) : items[i].kind = kind })

\* the token events among the items
TokensOf(items) == SelectSeq(items, LAMBDA item : item.kind \in TokenKinds)

\* the items carrying node emissions keep the order of the emissions
InEmissionOrder(items) ==
    \A i, j \in 1..Len(items) :
        (i < j /\ items[i].seq > 0 /\ items[j].seq > 0) => items[i].seq < items[j].seq

\* C22: the chunks delivered to the client are a prefix of the items put on
\* the queue, in the same order and none twice; the events of the run are
\* put, and so delivered, in the order the nodes emitted them.
C22_DeliveredIsPrefixOfPut ==
    /\ IsPrefix(delivered, put_log)
    /\ \A i, j \in 1..Len(delivered) : i # j => delivered[i].id # delivered[j].id
    /\ InEmissionOrder(put_log)
    /\ InEmissionOrder(delivered)

\* two node events were delivered with another chunk before them while a
\* later item is still on the queue
C22_Witness ==
    /\ Len(delivered) >= 3
    /\ \E i, j \in 1..Len(delivered) :
          i < j /\ delivered[i].seq = 1 /\ delivered[j].seq = 2
    /\ queue # << >>

\* C23: when an exception reaches the runner's outermost handler, the queue
\* is given, next to each other and in this order, an error event, the
\* apology token, the result event and the sentinel, each exactly once in
\* the session; the runner puts nothing after them, and the sentinel is
\* there for the reader unless the reader has already stopped.
C23_FailureEndsTheStream ==
    runner_pc = "failed" =>
        /\ \E i \in 1..Len(put_log) :
              /\ i + 3 <= Len(put_log)
              /\ KindsOf(SubSeq(put_log, i, i + 3)) = OnException \o OnFinally
              /\ \A j \in (i + 4)..Len(put_log) : put_log[j].kind = "keep-alive"
        /\ CountKind(put_log, "error") = 1
        /\ CountKind(put_log, "apology_token") = 1
        /\ CountKind(put_log, "result") = 1
        /\ CountKind(put_log, SENTINEL) = 1
        /\ \/ sse_pc = "done"
           \/ \E k \in 1..Len(queue) : queue[k].kind = SENTINEL

\* the agent run raised after a node event was put, and the reader has
\* read up to the sentinel
C23_Witness ==
    /\ runner_pc = "failed"
    /\ \E i \in 1..Len(delivered) : delivered[i].seq = 1
    /\ CountKind(delivered, "error") = 1
    /\ CountKind(delivered, "result") = 1
    /\ sse_pc = "done"
    /\ ~client_gone

RunnerEnded == runner_pc \in {"finished", "failed", "cancelled"}

\* C24: once the client has gone the session coroutine ends, and so do the
\* producer and the heartbeat; when it ends the flag is set and both tasks
\* have been cancelled; from the moment the flag is set no token event is
\* put on the queue and nothing is delivered.
C24_DisconnectStopsTheSession ==
    /\ [](sse_pc = "done" => client_disconnected /\ producer_cancel /\ pinger_cancel)
    /\ [](client_disconnected => sse_pc = "done")
    /\ [][client_disconnected =>
            /\ TokensOf(put_log') = TokensOf(put_log)
            /\ delivered' = delivered]_vars
    /\ (client_gone ~> sse_pc = "done")
    /\ (client_gone ~> (RunnerEnded /\ pinger_pc \in {"done", "cancelled"}))

\* the client went away in the middle of the agent run: the runner was
\* cancelled there, after a token had been delivered
C24_Witness ==
    /\ client_gone
    /\ sse_pc = "done"
    /\ runner_pc = "cancelled"
    /\ node_events >= 1
    /\ CountKind(delivered, "token") >= 1
    /\ CountKind(put_log, "result") = 1
    /\ CountKind(put_log, "metadata") = 0

\* ------------------------------------------------------------------------
\* Routing replies
\* ------------------------------------------------------------------------
\* C25: whatever the LLM replies to the routing prompt, classify_mcp does
\* not raise and leaves a valid agent code in next; after a reply that is
\* not JSON the code is that of the first unvisited stage.
C25_RoutingReplyAlwaysHandled ==
    classify_mcp_raw # NoReply =>
        /\ pc # "FAILED"
        /\ next \in MCP_AGENT_CHOICES
        /\ classify_mcp_raw.kind = "not_json" => next = FirstUnvisited

\* ------------------------------------------------------------------------
\* Tool lookup
\* ------------------------------------------------------------------------
\* two names that differ only in the case of their letters and in which
\* of '-', ' ' and '_' stands at a position
SameUpToAlias(a, b) ==
    /\ Len(a) = Len(b)
    /\ \A i \in 1..Len(a) :
          \/ a[i] = b[i]
          \/ {a[i], b[i]} \subseteq {"a", "A"}
          \/ {a[i], b[i]} \subseteq {"-", " ", "_"}

\* the name is a key of the registry, or an alias of one
MatchesRegistered(registry, tool_name) ==
    \E i \in 1..Len(registry) : SameUpToAlias(registry[i], tool_name)

LookupReturned == tool_lookup.called /\ tool_lookup.raised = ""

McpAnswered ==
    /\ web_search_call.called
    /\ web_search_call.valid
    /\ web_search_call.configured
    /\ ~web_search_call.raises

\* C27 (as claimed): the conversion yields None exactly for a null response
\* and for a string that is not JSON, and a list otherwise; web_search
\* returns the converted list whenever there is one, and falls back to
\* Tavily exactly when the conversion yields None, the MCP call raises, or
\* no MCP search tool is configured.
C27_NoneOnlyForNullOrNonJson ==
    web_search_call.called =>
        /\ McpAnswered =>
              /\ web_search_call.converted.none
                    <=> web_search_call.raw.form \in {"none", "text"}
              /\ ~web_search_call.converted.none =>
                    /\ web_search_call.source = "mcp"
                    /\ web_search_call.results = web_search_call.converted.results
        /\ web_search_call.source = "tavily"
              <=> \/ ~web_search_call.configured
                  \/ web_search_call.raises
                  \/ web_search_call.converted.none

\* C27 (amended): the conversion yields None exactly for a null response,
\* for a string that is not JSON and for a string that is the JSON null,
\* and a list otherwise; on an input that validates, web_search returns the
\* converted list whenever there is one, and falls back to Tavily exactly
\* when the conversion yields None, the MCP call raises, or no MCP search
\* tool is configured; on an input that does not validate it returns the
\* error text and searches nowhere.
C27_NoneForNullNonJsonOrJsonNull ==
    web_search_call.called =>
        /\ McpAnswered =>
              /\ web_search_call.converted.none
                    <=> \/ web_search_call.raw.form \in {"none", "text"}
                        \/ /\ web_search_call.raw.form = "json_text"
                           /\ web_search_call.raw.value.t = "null"
              /\ ~web_search_call.converted.none =>
                    /\ web_search_call.source = "mcp"
                    /\ web_search_call.results = web_search_call.converted.results
        /\ web_search_call.valid =>
              (web_search_call.source = "tavily"
                 <=> \/ ~web_search_call.configured
                     \/ web_search_call.raises
                     \/ web_search_call.converted.none)
        /\ ~web_search_call.valid <=> web_search_call.source = "invalid"

\* the MCP tool answered the JSON text null and web_search fell back
C27_Witness ==
    /\ McpAnswered
    /\ web_search_call.raw.form = "json_text"
    /\ web_search_call.raw.value.t = "null"
    /\ web_search_call.source = "tavily"

\* ------------------------------------------------------------------------
\* Failures inside a stage
\* ------------------------------------------------------------------------
\* the Stage Agent made its i-th decision
Decided(i) == i <= stage_run.decisions

\* its i-th decision was the call the tool budget turned down
Rejected(i) ==
    /\ i = stage_run.decisions
    /\ stage_run.script[i].action = "call_tool"
    /\ BudgetNoteIn(RunEntry.notes)

\* its i-th decision named a resolved tool, which was invoked
Invoked(i) == Decided(i) /\ KnownCall(stage_run.script[i]) /\ ~Rejected(i)

\* its i-th decision named a tool that is not among the resolved tools
UnknownRequest(i) ==
    /\ Decided(i)
    /\ stage_run.script[i].action = "call_tool"
    /\ ~HasTool(RunTools, stage_run.script[i].tool_name)
    /\ ~Rejected(i)

NoteIn(notes, type, tool, output) ==
    \E k \in 1..Len(notes) : notes[k] = Scratch(type, tool, output)

CountNotes(notes, type, output) ==
    Cardinality({ k \in 1..Len(notes) : notes[k].type = type /\ notes[k].output = output })

ToolLabels == { RunTools[k].label : k \in 1..Len(RunTools) }

\* C28: a tool that raises inside the Fallback Executor does not stop the
\* stage: the executor notes the failure of the tool it attempted (the
\* highest-ranked one), records nothing for it, and returns with status
\* skipped since no tool produced a result; the run goes on.
C28_FallbackFailureIsNoted ==
    (StageRan /\ stage_run.ran_fallback) =>
        /\ pc = "history_length_check"
        /\ LET top == TopRanked(RunTools)
           IN  (top.score >= 30 /\ stage_run.outcome[top.name] = "raise") =>
                 /\ NoteIn(RunEntry.notes, "fallback", top.label, "error")
                 /\ RunResults = EmptyMap
                 /\ RunEntry.status = "skipped"
                 /\ RunEntry.tools = << >>
        /\ RunResults = EmptyMap => RunEntry.status = "skipped"

\* the highest-ranked tool raised in the fallback and the stage was skipped
C28_Witness ==
    /\ StageRan
    /\ stage_run.ran_fallback
    /\ stage_run.outcome[TopRanked(RunTools).name] = "raise"
    /\ TopRanked(RunTools).score >= 30
    /\ RunEntry.status = "skipped"
    /\ pc = "history_length_check"

\* C29: a request for a tool that is not among the resolved tools leaves
\* an error in the notes, invokes nothing, is not counted among the used
\* tools (so the budget note only follows MAX_STAGE_AGENT_TOOLS recorded
\* calls) and uses up an iteration: the Stage Agent makes at most
\* MAX_STAGE_AGENT_STEPS decisions, all of them when every decision is a
\* call.
C29_UnknownToolWastesOneStep ==
    (StageRan /\ RunTools # << >>) =>
        /\ stage_run.decisions <= MAX_STAGE_AGENT_STEPS
        /\ CountNotes(RunEntry.notes, "error", "not_found")
              = Cardinality({ i \in 1..MAX_STAGE_AGENT_STEPS : UnknownRequest(i) })
        /\ stage_run.agent_invoked
              = Cardinality({ i \in 1..MAX_STAGE_AGENT_STEPS : Invoked(i) })
        /\ \A k \in 1..Len(RunEntry.tools) : RunEntry.tools[k] \in ToolLabels
        /\ CallsUpTo(stage_run.script, MAX_STAGE_AGENT_STEPS)
              => stage_run.decisions = MAX_STAGE_AGENT_STEPS
        /\ BudgetNoteIn(RunEntry.notes) =>
              Cardinality({ i \in 1..MAX_STAGE_AGENT_STEPS :
                              /\ i < stage_run.decisions
                              /\ KnownCall(stage_run.script[i])
                              /\ stage_run.script[i].outcome # "empty" })
                >= MAX_STAGE_AGENT_TOOLS

\* an unknown tool was requested first and three recorded calls followed,
\* none of them turned down
C29_Witness ==
    /\ StageRan
    /\ RunTools # << >>
    /\ UnknownRequest(1)
    /\ stage_run.decisions = MAX_STAGE_AGENT_STEPS
    /\ stage_run.agent_invoked = MAX_STAGE_AGENT_TOOLS
    /\ Len(RunEntry.tools) = MAX_STAGE_AGENT_TOOLS
    /\ ~BudgetNoteIn(RunEntry.notes)

\* C30: when a tool invoked by the Stage Agent raises, the stage does not
\* fail: an error result is recorded under the tool's label, once for each
\* raising invocation, the notes show it, and the loop goes on to its next
\* iteration.
C30_ToolErrorIsRecorded ==
    (StageRan /\ RunTools # << >>) =>
        \A i \in 1..MAX_STAGE_AGENT_STEPS :
            (Invoked(i) /\ stage_run.script[i].outcome = "raise") =>
                LET label == ToolNamed(RunTools, stage_run.script[i].tool_name).label
                IN  /\ pc = "history_length_check"
                    /\ label \in DOMAIN RunResults
                    /\ Cardinality({ k \in 1..Len(RunResults[label]) :
                                       RunResults[label][k] = "error" })
                         = Cardinality({ j \in 1..MAX_STAGE_AGENT_STEPS :
                                          /\ Invoked(j)
                                          /\ stage_run.script[j].outcome = "raise"
                                          /\ ToolNamed(RunTools,
                                                       stage_run.script[j].tool_name).label
                                               = label })
                    /\ NoteIn(RunEntry.notes, "tool", label, "error")
                    /\ \E k \in 1..Len(RunEntry.tools) : RunEntry.tools[k] = label
                    /\ i < MAX_STAGE_AGENT_STEPS => stage_run.decisions > i

\* the first invocation raised and the next decision's call was executed
C30_Witness ==
    /\ StageRan
    /\ RunTools # << >>
    /\ Invoked(1)
    /\ stage_run.script[1].outcome = "raise"
    /\ Invoked(2)
    /\ stage_run.script[2].outcome = "data"
    /\ RunEntry.status = "completed"

\* ------------------------------------------------------------------------
\* The summary node
\* ------------------------------------------------------------------------
\* history `after` is history `before` with `added` entries appended
Appended(before, after, added) ==
    /\ Len(after) = Len(before) + added
    /\ SubSeq(after, 1, Len(before)) = before

\* the summary node runs next exactly when the history check finds the
\* joined history text longer than 10,000 characters
SummaryRunsIffLong ==
    /\ pc = "history_length_check" =>
          (pc' = "summary" <=> HistoryTextLen(history) > 10000)
    /\ (pc' = "summary" /\ pc # "summary") => pc = "history_length_check"
    /\ pc = "mcp_execution" => pc' \in {"history_length_check", "FAILED"}

\* the summary node leaves the collected results, the trace, the visit
\* counts and the step count alone
SummaryFrame ==
    pc = "summary" =>
        /\ mcp_tool_results' = mcp_tool_results
        /\ workflow_trace' = workflow_trace
        /\ stage_visit_counts' = stage_visit_counts
        /\ step_count' = step_count

\* C31 (as stated): after each stage execution the summary node runs if
\* and only if the history text is longer than 10,000 characters; when it
\* runs it appends exactly one system note to the history, removes and
\* changes nothing, and leaves stage_results, stage_trace,
\* stage_visit_counts and step_count unchanged.
C31_SummaryAppendsOneNote ==
    [][ /\ SummaryRunsIffLong
        /\ SummaryFrame
        /\ pc = "summary" =>
              /\ Appended(history, history', 1)
              /\ history'[Len(history')].role = "system" ]_vars

\* C31 (amended): as above, but the summary node appends one system note
\* when the model's summary is not blank and nothing when it is blank.
C31_SummaryAppendsAtMostOneNote ==
    [][ /\ SummaryRunsIffLong
        /\ SummaryFrame
        /\ pc = "summary" =>
              \/ history' = history
              \/ /\ Appended(history, history', 1)
                 /\ history'[Len(history')] = SummaryNote(SummaryLen) ]_vars

\* the summary node has run on a history longer than 10,000 characters
\* and appended its note
C31_Witness ==
    /\ pc = "increment_step"
    /\ Len(executed) > 0
    /\ executed[Len(executed)] = "summary"
    /\ history[Len(history)] = SummaryNote(SummaryLen)
    /\ HistoryTextLen(SubSeq(history, 1, Len(history) - 1)) > 10000
    /\ Len(workflow_trace) > 0

\* ------------------------------------------------------------------------
\* Emission after the cancellation flag
\* ------------------------------------------------------------------------
\* the items this step puts on the queue
NewlyPut == SubSeq(put_log', Len(put_log) + 1, Len(put_log'))

C33_DiscoveryOncePerProcess ==
    /\ \A r1, r2 \in Runs :
          (run_adapter[r1] # 0 /\ run_adapter[r2] # 0) => run_adapter[r1] = run_adapter[r2]
    /\ \A s \in RegistryServers : load_calls[s] <= 1
    /\ \A r1, r2 \in Runs :
          (/\ run_stages[r1] > 0 /\ run_stages[r2] > 0
           /\ run_pc[r1] # "discover" /\ run_pc[r2] # "discover"
           /\ run_server[r1] = run_server[r2])
            => run_tools[r1] = run_tools[r2]

\* ------------------------------------------------------------------------
\* The meaningfulness filter
\* ------------------------------------------------------------------------
IsEmptyList(value) == value.t = "list" /\ value.items = << >>

HasEmptyList(fields, key) == key \in DOMAIN fields /\ IsEmptyList(fields[key])

\* hits, results or data.search.hits is present and empty
EmptyPagination(fields) ==
    \/ HasEmptyList(fields, "hits")
    \/ HasEmptyList(fields, "results")
    \/ /\ "data" \in DOMAIN fields
       /\ fields["data"].t = "dict"
       /\ "search" \in DOMAIN fields["data"].fields
       /\ fields["data"].fields["search"].t = "dict"
       /\ HasEmptyList(fields["data"].fields["search"].fields, "hits")

\* the results the filter is said to reject
SaidNotMeaningful(value) ==
    \/ value.t = "null"
    \/ value.t = "str" /\ value.text \in {"", " "}
    \/ IsEmptyList(value)
    \/ value.t = "dict" /\ DOMAIN value.fields = {}
    \/ value.t = "dict" /\ EmptyPagination(value.fields)

\* ... and the results it rejects: also a JSON text of a rejected value, a
\* list of rejected items, and a mapping holding only None, "", [] and {}
RECURSIVE NotMeaningful(_)
NotMeaningful(value) ==
    \/ SaidNotMeaningful(value)
    \/ /\ value.t = "str"
       /\ value.text = "json"
       /\ NotMeaningful(value.items[1])
    \/ /\ value.t = "list"
       /\ \A i \in 1..Len(value.items) : NotMeaningful(value.items[i])
    \/ /\ value.t = "dict"
       /\ \A k \in DOMAIN value.fields :
             \/ value.fields[k].t = "null"
             \/ value.fields[k] = StrResult("")
             \/ IsEmptyList(value.fields[k])
             \/ value.fields[k].t = "dict" /\ DOMAIN value.fields[k].fields = {}

RECURSIVE SumVisits(_, _)
SumVisits(stage_visits, keys) ==
    IF keys = {} THEN 0
    ELSE LET k == CHOOSE x \in keys : TRUE
         IN  stage_visits[k] + SumVisits(stage_visits, keys \ {k})

StageExecutions ==
    Cardinality({ i \in 1..Len(executed) : executed[i] = "mcp_execution" })

\* C35: whenever classify_mcp is entered, step_count is the number of
\* stage executions so far and the sum of the stage visit counts; it never
\* exceeds the number of routable stages (4), which is below
\* MAX_WORKFLOW_ITERATIONS, so increment_step always goes back to
\* classify_mcp and never leaves through its budget exit.
C35_StepCountCountsStageExecutions ==
    /\ [](pc = "classify_mcp" =>
            /\ step_count = StageExecutions
            /\ step_count = SumVisits(stage_visit_counts, StageKeys)
            /\ step_count <= Cardinality(RoutableStages))
    /\ [](Cardinality(RoutableStages) = 4 /\ step_count <= 4 /\ 4 < MAX_WORKFLOW_ITERATIONS)
    /\ [][pc = "increment_step" => pc' = "classify_mcp"]_vars

\* classify_mcp is entered after every routable stage has run once
C35_Witness ==
    /\ pc = "classify_mcp"
    /\ step_count = 4
    /\ \A k \in RoutableStages : stage_visit_counts[k] = 1
    /\ Len(workflow_trace) = 4

RunnerItems == SelectSeq(put_log, LAMBDA item : item.kind # "keep-alive")

\* the sentinel was put once and is the runner's last item, after the
\* result event in /chat/stream and /chat/langgraph
ClosedBySentinel ==
    LET n == Len(RunnerItems)
    IN  /\ CountKind(put_log, SENTINEL) = 1
        /\ n >= 1
        /\ RunnerItems[n].kind = SENTINEL
        /\ endpoint \in {"/chat/stream", "/chat/langgraph"} =>
              /\ n >= 2
              /\ RunnerItems[n - 1].kind = "result"

\* C37 (as stated): however a streaming runner ends (normal completion,
\* caught exception, cancellation), it has put the sentinel exactly once,
\* as its last item, right after its result event in /chat/stream and
\* /chat/langgraph.
C37_SentinelOnEveryExit == RunnerEnded => ClosedBySentinel

\* C37 (amended): that holds for a runner that completes or catches an
\* exception, and for one cancelled while suspended in its try block; a
\* runner cancelled before its first step, or, in /chat/stream, while its
\* finally clause waits for the message store, puts no sentinel, and then
\* the consumer has already left.  The sentinel is never put twice and
\* the runner puts nothing after it.
C37_SentinelUnlessCancelledEarlyOrInFinally ==
    /\ CountKind(put_log, SENTINEL) <= 1
    /\ \A i \in 1..Len(RunnerItems) :
          RunnerItems[i].kind = SENTINEL => i = Len(RunnerItems)
    /\ runner_pc \in {"finished", "failed"} => ClosedBySentinel
    /\ runner_pc = "cancelled" =>
          \/ ClosedBySentinel
          \/ /\ CountKind(put_log, SENTINEL) = 0
             /\ sse_pc = "done"
             /\ client_disconnected
             /\ RunnerItems = << >> \/ endpoint = "/chat/stream"

\* a /chat/stream runner was cancelled after it had emitted an event, and
\* closed the stream with its result event and the sentinel
C37_Witness ==
    /\ endpoint = "/chat/stream"
    /\ runner_pc = "cancelled"
    /\ node_events >= 1
    /\ ClosedBySentinel

ChatEnded == chat_pc \in {"returned", "raised"}

\* the loop is left in its first iteration, the error of the exhausted
\* loop is never raised, and no tool-enabled call sees tool results
FirstIterationOnly ==
    /\ chat_turn = 0
    /\ chat_llm_calls <= 1
    /\ chat_tool_rounds <= 1
    /\ chat_error # LoopStep(MAX_TOOL_LOOPS).error
    /\ ~chat_fed_back

\* a returned run made its one tool-enabled call and answered either with
\* the reply's text, or, after handling every requested tool call, with
\* the one tool-less call
ReturnedAfterOneCall ==
    chat_pc = "returned" =>
        /\ chat_llm_calls = 1
        /\ \/ /\ chat_answer = "content"
              /\ chat_tool_rounds = 0 /\ chat_answer_calls = 0
              /\ chat_outputs = << >>
           \/ /\ chat_answer \in {"answer", "failed"}
              /\ chat_tool_rounds = 1 /\ chat_answer_calls = 1
              /\ chat_outputs # << >> /\ chat_pending = 0

RaisedAt(i) == Invoked(i) /\ stage_run.script[i].outcome = "raise"

\* the Stage Agent's invocations before its i-th decision that were
\* entered among the used tools
UsedBefore(i) ==
    { j \in 1..(i - 1) : Invoked(j) /\ stage_run.script[j].outcome # "empty" }

\* C40: a tool invocation of the Stage Agent that raises is stored as an
\* error under the tool's label and the tool is entered among the used
\* tools, where it counts against the tool cap like any other (a request
\* made after MAX_STAGE_AGENT_TOOLS used tools is turned down, whether
\* they raised or not); such a stage is recorded as completed, also when
\* the raising call was its only one, and the Fallback Executor is not
\* run for it.
C40_RaisingToolCountsAsUsed ==
    (StageRan /\ RunTools # << >>) =>
        /\ \A i \in 1..MAX_STAGE_AGENT_STEPS :
              RaisedAt(i) =>
                LET label == ToolNamed(RunTools, stage_run.script[i].tool_name).label
                IN  /\ label \in DOMAIN RunResults
                    /\ \E k \in 1..Len(RunResults[label]) : RunResults[label][k] = "error"
                    /\ LabelCount(RunEntry.tools, label)
                         = Cardinality({ j \in 1..MAX_STAGE_AGENT_STEPS :
                                          /\ Invoked(j)
                                          /\ stage_run.script[j].outcome # "empty"
                                          /\ ToolNamed(RunTools,
                                                       stage_run.script[j].tool_name).label
                                               = label })
                    /\ RunEntry.status = "completed"
                    /\ ~stage_run.ran_fallback
                    /\ stage_run.fallback_invoked = << >>
        /\ \A i \in 1..MAX_STAGE_AGENT_STEPS :
              (Decided(i) /\ stage_run.script[i].action = "call_tool") =>
                (Rejected(i) <=> Cardinality(UsedBefore(i)) >= MAX_STAGE_AGENT_TOOLS)
        /\ Cardinality(UsedBefore(MAX_STAGE_AGENT_STEPS + 1)) <= MAX_STAGE_AGENT_TOOLS

\* the stage's only tool call raised, and the agent then finished
C40_Witness ==
    /\ StageRan
    /\ RunTools # << >>
    /\ RaisedAt(1)
    /\ stage_run.decisions = 2
    /\ stage_run.script[2].action = "finish"
    /\ stage_run.agent_invoked = 1
    /\ RunEntry.status = "completed"
    /\ RunEntry.tools = << ToolNamed(RunTools, stage_run.script[1].tool_name).label >>
    /\ ~stage_run.ran_fallback

\* three raising calls used up the tool cap and the fourth request was
\* turned down
C40_CapReachedByRaisingCalls ==
    /\ StageRan
    /\ RunTools # << >>
    /\ \A i \in 1..MAX_STAGE_AGENT_TOOLS : RaisedAt(i)
    /\ Rejected(MAX_STAGE_AGENT_TOOLS + 1)

=============================================================================
